---- MODULE Spec2Model ----
(***************************************************************************)
(* OpenSkills: the sandbox executor pool (openskills/sandbox/manager.py)   *)
(* and the conversation orchestrator (openskills/agent.py).                *)
(*                                                                         *)
(* Each subsystem has its own next-state relation and specification; the   *)
(* variables of the other subsystem stay at their initial values.          *)
(***************************************************************************)
EXTENDS Integers, Sequences, FiniteSets, TLC

VARIABLES
    \* ---- SandboxManager ----
    strategy,             \* SandboxManager.strategy
    cache_size,           \* SandboxManager.cache_size
    active,               \* SandboxManager._active
    cache,                \* SandboxManager._cache (OrderedDict), oldest first
    persistent_executor,  \* SandboxManager._persistent_executor (0 = None)
    installed_deps,       \* SandboxManager._installed_deps
    executors,            \* every SandboxExecutor object created, by identity
    use_order,            \* history: skill names by recency of use, oldest first
    last_call,            \* what the last manager call did and returned
    \* ---- SkillAgent ----
    auto_select_skill,    \* SkillAgent.auto_select_skill
    auto_load_references, \* SkillAgent.auto_load_references
    initialized,          \* SkillAgent._initialized
    messages,             \* ConversationContext.messages, by role
    active_skill,         \* ConversationContext.active_skill ("" = None)
    state,                \* ConversationContext.state
    loaded_references,    \* ConversationContext.loaded_references
    reference_summaries,  \* ConversationContext.reference_summaries, in insertion order
    instruction_loaded,   \* the skills whose Skill.instruction is set
    ref_content,          \* Reference.content of every reference of the registry
    turn,                 \* what the last agent call did and returned
    \* ---- script execution ----
    auto_execute_scripts, \* SkillAgent.auto_execute_scripts
    use_sandbox,          \* SkillManager.use_sandbox
    discovered,           \* SkillManager._discovered: the registry is filled
    llm_texts,            \* the response contents the agent's LLM client produces
    skill_match_threshold, \* SkillAgent.skill_match_threshold
    queries,              \* the message contents the application sends
    \* ---- one SandboxExecutor and its SandboxClient ----
    client_open,          \* SandboxExecutor._client is set and its HTTP client open
    environment_ready,    \* SandboxExecutor._environment_ready
    call,                 \* what the last call on the executor or client did
    dispatched,           \* what the last call made the executors do, in order
    \* ---- ScriptExecutor (the local executor) ----
    environ,              \* os.environ of the process the executor runs in
    process,              \* what the last call on the local executor did
    \* ---- SkillManager: the registry and the files it is read from ----
    files,                \* the files under the skill root, by relative path
    _skills,              \* SkillManager._skills: the Skill objects by name
    _metadata_index,      \* SkillManager._metadata_index, in registration order
    registry_call,        \* what the last call on the registry did and returned
    \* ---- SkillMatcher ----
    matcher_min_score,    \* SkillMatcher.min_score
    ranking,              \* what the last call of SkillMatcher.match returned
    \* ---- SandboxManager shared by several asyncio tasks ----
    _lock,                \* SandboxManager._lock is held
    _waiters,             \* the tasks queued on SandboxManager._lock, first first
    tasks,                \* every caller's position in get_executor, with its locals
    closing,              \* the position of the task running __aexit__
    \* ---- SkillManager: the file transfers around a sandbox execution ----
    transfer,             \* what the last upload or download call did and returned
    \* ---- SkillAgent.chat_stream and the LLM client ----
    stream,               \* the position of the generator chat_stream returned
    request               \* the position of OpenAICompatClient._make_request

sandbox_vars == <<strategy, cache_size, active, cache, persistent_executor,
                  installed_deps, executors, use_order, last_call>>

agent_vars == <<auto_select_skill, auto_load_references, initialized, messages,
                active_skill, state, loaded_references, reference_summaries,
                instruction_loaded, ref_content, turn>>

script_vars == <<auto_execute_scripts, use_sandbox, discovered, llm_texts,
                 dispatched>>

match_vars == <<skill_match_threshold, queries>>

client_vars == <<client_open, environment_ready, call>>

local_vars == <<environ, process>>

registry_vars == <<files, _skills, _metadata_index, registry_call>>

matcher_vars == <<matcher_min_score, ranking>>

pool_vars == <<_lock, _waiters, tasks, closing>>

sync_vars == <<transfer>>

llm_vars == <<stream, request>>

core_vars == <<local_vars, registry_vars, matcher_vars, pool_vars, sync_vars,
               llm_vars>>

vars == <<sandbox_vars, agent_vars, script_vars, match_vars, client_vars,
          core_vars>>

-----------------------------------------------------------------------------
(* Bounds of the model.                                                    *)

\* SandboxExecutor objects created in one run of the model
MaxExecutors == 3
\* largest cache_size a manager is constructed with
MaxCacheSize == 2
\* messages one conversation holds before it is reset
MaxMessages == 4
MaxHistory == 6
\* executors the pool of a SkillManager creates over its life
MaxSessions == 2

\* largest number the answer to the recall call names
MaxRecallNumber == 2

-----------------------------------------------------------------------------
(* SandboxManager                                                          *)

PER_EXECUTION == "per_execution"
PER_SKILL == "per_skill"
PERSISTENT == "persistent"
SandboxStrategy == {PER_EXECUTION, PER_SKILL, PERSISTENT}

\* skill names callers ask executors for; "_default" is warmup's default name
SkillNames == {"alpha", "beta", "_default"}

\* the dependency argument of get_executor: None (an empty SkillDependency takes
\* the same branches), or the named skill's SkillDependency with packages or commands
Dependencies == {"none", "deps"}

\* what the sandbox server does to the remote calls of one get_executor call: all
\* succeed, or the first one made (the workspace mkdir of SandboxExecutor.__aenter__,
\* a setup command) raises SandboxConnectionError or SandboxExecutionError
Outcomes == {"ok", "raises"}

NoExecutor == 0

DEFAULT_CACHE_SIZE == 10

has_dependencies(dependency) == dependency = "deps"

NoSetups == [s \in SkillNames |-> 0]

\* SandboxExecutor.__init__ followed by a successful or failed __aenter__: the
\* client is open either way
NewExecutor == [live |-> TRUE, environment_ready |-> FALSE, setups |-> NoSetups]

\* SandboxExecutor.setup_environment run to its end for the dependency of skill_name
setup_environment(e, skill_name) ==
    [e EXCEPT !.environment_ready = TRUE,
              !.setups = [@ EXCEPT ![skill_name] = @ + 1]]

mark_ready(e) == [e EXCEPT !.environment_ready = TRUE]

\* SandboxExecutor.__aexit__
executor_aexit(e) == [e EXCEPT !.live = FALSE, !.environment_ready = FALSE]

\* SandboxManager._create_executor: the executor table afterwards, the new executor
\* (NoExecutor when the call raised) and the exception
create_executor(execs, skill_name, dependency, outcome) ==
    LET id == Len(execs) + 1 IN
    IF outcome = "raises"
    THEN [executors |-> Append(execs, NewExecutor), value |-> NoExecutor,
          raised |-> "SandboxError"]
    ELSE IF has_dependencies(dependency)
    THEN [executors |-> Append(execs, setup_environment(NewExecutor, skill_name)),
          value |-> id, raised |-> ""]
    ELSE [executors |-> Append(execs, mark_ready(NewExecutor)),
          value |-> id, raised |-> ""]

\* SandboxManager._cleanup_executor
cleanup_executor(execs, id) == [execs EXCEPT ![id] = executor_aexit(@)]

CacheKeys(c) == {c[i].name : i \in DOMAIN c}
CacheExecutors(c) == {c[i].executor : i \in DOMAIN c}
CacheIndex(c, name) == CHOOSE i \in DOMAIN c : c[i].name = name
CacheGet(c, name) == c[CacheIndex(c, name)].executor
RemoveAt(s, i) == SubSeq(s, 1, i - 1) \o SubSeq(s, i + 1, Len(s))

\* mutant of move_to_end: a cache hit does not refresh the entry
move_to_end_forgotten(c, name) == c

\* OrderedDict.move_to_end
move_to_end(c, name) ==
    LET i == CacheIndex(c, name) IN Append(RemoveAt(c, i), c[i])

\* the eviction loop of get_executor: popitem(last=False) while over capacity
RECURSIVE evict_oldest(_, _)
evict_oldest(c, execs) ==
    IF Len(c) > cache_size
    THEN evict_oldest(Tail(c), cleanup_executor(execs, Head(c).executor))
    ELSE [cache |-> c, executors |-> execs]

\* the state a get_executor call leaves and what it returns
CallResult(c, p, d, x, value, raised) ==
    [cache |-> c, persistent_executor |-> p, installed_deps |-> d,
     executors |-> x, value |-> value, raised |-> raised]

\* get_executor, strategy PER_EXECUTION
per_execution(skill_name, dependency, outcome) ==
    LET cr == create_executor(executors, skill_name, dependency, outcome) IN
    CallResult(cache, persistent_executor, installed_deps,
               cr.executors, cr.value, cr.raised)

\* get_executor, strategy PERSISTENT
persistent(skill_name, dependency, outcome) ==
    IF persistent_executor = NoExecutor
    THEN LET cr == create_executor(executors, skill_name, dependency, outcome) IN
         IF cr.raised # ""
         THEN CallResult(cache, persistent_executor, installed_deps,
                         cr.executors, NoExecutor, cr.raised)
         ELSE CallResult(cache, cr.value,
                         IF has_dependencies(dependency)
                         THEN installed_deps \cup {skill_name} ELSE installed_deps,
                         cr.executors, cr.value, "")
    ELSE IF has_dependencies(dependency) /\ skill_name \notin installed_deps
    THEN IF outcome = "raises"
         THEN CallResult(cache, persistent_executor, installed_deps,
                         executors, NoExecutor, "SandboxError")
         ELSE CallResult(cache, persistent_executor,
                         installed_deps \cup {skill_name},
                         [executors EXCEPT ![persistent_executor] =
                              setup_environment(@, skill_name)],
                         persistent_executor, "")
    ELSE CallResult(cache, persistent_executor, installed_deps,
                    executors, persistent_executor, "")

\* get_executor, strategy PER_SKILL, the name not cached: create, insert, evict
per_skill_miss(skill_name, dependency, outcome) ==
    LET cr == create_executor(executors, skill_name, dependency, outcome) IN
    IF cr.raised # ""
    THEN CallResult(cache, persistent_executor, installed_deps,
                    cr.executors, NoExecutor, cr.raised)
    ELSE LET ev == evict_oldest(
                 Append(cache, [name |-> skill_name, executor |-> cr.value]),
                 cr.executors) IN
         CallResult(ev.cache, persistent_executor, installed_deps,
                    ev.executors, cr.value, "")

\* mutant of per_skill: the cache lookup never hits
per_skill_never_hits(skill_name, dependency, outcome) ==
    per_skill_miss(skill_name, dependency, outcome)

\* get_executor, strategy PER_SKILL
per_skill(skill_name, dependency, outcome) ==
    IF skill_name \in CacheKeys(cache)
    THEN CallResult(move_to_end(cache, skill_name), persistent_executor,
                    installed_deps, executors, CacheGet(cache, skill_name), "")
    ELSE per_skill_miss(skill_name, dependency, outcome)

\* get_executor once the manager is known to be active: the body under the lock
under_lock(skill_name, dependency, outcome) ==
    IF strategy = PER_EXECUTION THEN per_execution(skill_name, dependency, outcome)
    ELSE IF strategy = PERSISTENT THEN persistent(skill_name, dependency, outcome)
    ELSE per_skill(skill_name, dependency, outcome)

\* mutant of get_executor: the check of _active is missing
get_executor_unchecked(skill_name, dependency, outcome) ==
    under_lock(skill_name, dependency, outcome)

\* SandboxManager.get_executor
get_executor(skill_name, dependency, outcome) ==
    IF ~active
    THEN CallResult(cache, persistent_executor, installed_deps,
                    executors, NoExecutor, "RuntimeError")
    ELSE under_lock(skill_name, dependency, outcome)

\* history: skill_name becomes the most recently used name
Used(order, skill_name) ==
    Append(SelectSeq(order, LAMBDA n : n # skill_name), skill_name)

\* a get_executor call with its effect on the manager
Call(skill_name, dependency, outcome) ==
    LET r == get_executor(skill_name, dependency, outcome) IN
    /\ Len(r.executors) <= MaxExecutors
    /\ cache' = r.cache
    /\ persistent_executor' = r.persistent_executor
    /\ installed_deps' = r.installed_deps
    /\ executors' = r.executors
    /\ use_order' = IF r.raised = "" /\ strategy = PER_SKILL
                    THEN Used(use_order, skill_name) ELSE use_order
    /\ last_call' = [op |-> "get_executor", skill |-> skill_name, dependency |-> dependency,
                     value |-> r.value, raised |-> r.raised,
                     created |-> Len(r.executors) - Len(executors)]
    /\ UNCHANGED <<strategy, cache_size, active>>
    /\ UNCHANGED <<agent_vars, script_vars, match_vars, client_vars, core_vars>>

NoCall(op) ==
    [op |-> op, skill |-> "", dependency |-> "none", value |-> NoExecutor,
     raised |-> "", created |-> 0]

\* SandboxManager.cleanup: the state it leaves
RECURSIVE cleanup_all(_, _)
cleanup_all(ids, execs) ==
    IF ids = {} THEN execs
    ELSE LET id == CHOOSE i \in ids : TRUE IN
         cleanup_all(ids \ {id}, cleanup_executor(execs, id))

cleanup ==
    [cache |-> <<>>,
     persistent_executor |-> NoExecutor,
     installed_deps |-> {},
     executors |-> cleanup_all(
         CacheExecutors(cache) \cup
             (IF persistent_executor # NoExecutor THEN {persistent_executor} ELSE {}),
         executors)]

SandboxInit ==
    /\ strategy \in SandboxStrategy
    /\ cache_size \in (IF strategy = PER_SKILL THEN 0..MaxCacheSize
                        ELSE {DEFAULT_CACHE_SIZE})
    /\ active = FALSE
    /\ cache = <<>>
    /\ persistent_executor = NoExecutor
    /\ installed_deps = {}
    /\ executors = <<>>
    /\ use_order = <<>>
    /\ last_call = NoCall("init")

\* SandboxManager.__aenter__
Enter ==
    /\ active' = TRUE
    /\ last_call' = NoCall("enter")
    /\ UNCHANGED <<strategy, cache_size, cache, persistent_executor,
                   installed_deps, executors, use_order>>
    /\ UNCHANGED <<agent_vars, script_vars, match_vars, client_vars, core_vars>>

\* SandboxManager.__aexit__
Exit ==
    /\ active
    /\ cache' = cleanup.cache
    /\ persistent_executor' = cleanup.persistent_executor
    /\ installed_deps' = cleanup.installed_deps
    /\ executors' = cleanup.executors
    /\ active' = FALSE
    /\ last_call' = NoCall("exit")
    /\ UNCHANGED <<strategy, cache_size, use_order>>
    /\ UNCHANGED <<agent_vars, script_vars, match_vars, client_vars, core_vars>>

\* a caller's get_executor(skill_name, dependency)
GetExecutor ==
    \E skill_name \in SkillNames, dependency \in Dependencies, outcome \in Outcomes :
        Call(skill_name, dependency, outcome)

\* SandboxManager.warmup
Warmup ==
    \E skill_name \in SkillNames, outcome \in Outcomes :
        Call(skill_name, "none", outcome)

SandboxNext == Enter \/ Exit \/ GetExecutor \/ Warmup

-----------------------------------------------------------------------------
(* SandboxClient and SandboxExecutor.setup_environment                      *)

\* CommandResult; present is FALSE where a call produced none
CommandResult(exit_code, stderr) ==
    [present |-> TRUE, exit_code |-> exit_code, stderr |-> stderr]
NoResult == [present |-> FALSE, exit_code |-> 0, stderr |-> ""]

\* an exception: its class and, for SandboxExecutionError, what it carries
Error(class, exit_code, stderr) ==
    [class |-> class, exit_code |-> exit_code, stderr |-> stderr]
NoError == Error("", 0, "")
SandboxExecutionError(exit_code, stderr) ==
    Error("SandboxExecutionError", exit_code, stderr)
SandboxConnectionError == Error("SandboxConnectionError", 0, "")

\* what the HTTP layer does with one request: the connection fails
\* (httpx.ConnectError), the request times out, the server answers with an error
\* status (response.raise_for_status raises for every 4xx and 5xx), or it
\* answers with a JSON body. A body in the AIO format holds "data" with the
\* output and possibly an exit code; a flat body holds exit_code and stderr
\* itself.
Answer(kind, status, format, has_exit_code, exit_code, success, stderr) ==
    [kind |-> kind, status |-> status, format |-> format,
     has_exit_code |-> has_exit_code, exit_code |-> exit_code,
     success |-> success, stderr |-> stderr]
ConnectFailure == Answer("connect_error", 0, "", FALSE, 0, FALSE, "")
TimedOut == Answer("timeout", 0, "", FALSE, 0, FALSE, "")
ErrorStatus == Answer("http_status", 403, "", FALSE, 0, FALSE, "denied")
Unavailable == Answer("http_status", 503, "", FALSE, 0, FALSE, "unavailable")
TooManyRequests == Answer("http_status", 429, "", FALSE, 0, FALSE, "slow down")
Succeeded == Answer("response", 200, "aio", TRUE, 0, TRUE, "")
Failed == Answer("response", 200, "aio", TRUE, 2, FALSE, "")
Answers ==
    {ConnectFailure, TimedOut, ErrorStatus, Unavailable, TooManyRequests,
     Succeeded, Failed,
     Answer("response", 200, "aio", FALSE, 0, FALSE, ""),
     Answer("response", 200, "flat", TRUE, 2, FALSE, "boom"),
     Answer("response", 200, "flat", FALSE, 0, TRUE, "")}

\* what a client call gives: the exception it raises or the result it returns
Gives(raised, result) == [raised |-> raised, result |-> result]

\* exceptions of httpx that no handler of the call catches
Propagated(answer) ==
    IF answer.kind = "connect_error" THEN Error("httpx.ConnectError", 0, "")
    ELSE IF answer.kind = "timeout" THEN Error("httpx.TimeoutException", 0, "")
    ELSE Error("httpx.HTTPStatusError", 0, "")

\* CommandResult.raise_for_status: the exception raised, NoError for none
raise_for_status(result) ==
    IF result.exit_code # 0
    THEN SandboxExecutionError(result.exit_code, result.stderr)
    ELSE NoError

\* SandboxClient.exec_command
exec_command(answer) ==
    IF answer.kind = "connect_error" THEN Gives(SandboxConnectionError, NoResult)
    ELSE IF answer.kind # "response" THEN Gives(Propagated(answer), NoResult)
    ELSE IF answer.format = "aio"
    THEN Gives(NoError,
               CommandResult(IF answer.has_exit_code THEN answer.exit_code
                             ELSE IF answer.success THEN 0 ELSE 1,
                             ""))
    ELSE Gives(NoError,
               CommandResult(IF answer.has_exit_code THEN answer.exit_code ELSE 0,
                             answer.stderr))

\* SandboxClient.write_file and read_file
guarded_file_call(answer) ==
    IF answer.kind = "connect_error" THEN Gives(SandboxConnectionError, NoResult)
    ELSE IF answer.kind = "http_status"
    THEN Gives(SandboxExecutionError(0 - 1, answer.stderr), NoResult)
    ELSE IF answer.kind = "timeout" THEN Gives(Propagated(answer), NoResult)
    ELSE Gives(NoError, NoResult)

\* SandboxClient.list_files, upload_file and download_file
plain_file_call(answer) ==
    IF answer.kind = "response" THEN Gives(NoError, NoResult)
    ELSE Gives(Propagated(answer), NoResult)

ClientOps == {"exec_command", "mkdir", "write_file", "read_file", "list_files",
              "upload_file", "download_file"}

\* a client operation once _ensure_client has passed
client_call(op, answer) ==
    IF op \in {"exec_command", "mkdir"} THEN exec_command(answer)
    ELSE IF op \in {"write_file", "read_file"} THEN guarded_file_call(answer)
    ELSE plain_file_call(answer)

\* SkillDependency values: nothing, packages only, packages and two system
\* commands, one system command only
NoDependency == [python |-> << >>, system |-> << >>]
DependencyValues ==
    {NoDependency,
     [python |-> <<"numpy">>, system |-> << >>],
     [python |-> <<"numpy">>, system |-> <<"mkdir", "chmod">>],
     [python |-> << >>, system |-> <<"mkdir">>]}

\* the commands of setup_environment in the order it sends them; checked tells
\* whether raise_for_status is applied to the result
setup_commands(dependency, upgrade_pip) ==
    (IF upgrade_pip THEN << [command |-> "pip_upgrade", checked |-> FALSE] >>
     ELSE << >>)
    \o (IF dependency.python # << >>
        THEN << [command |-> "pip_install", checked |-> TRUE] >> ELSE << >>)
    \o [i \in DOMAIN dependency.system |->
           [command |-> dependency.system[i], checked |-> TRUE]]

Sent(command, gives) ==
    [command |-> command,
     answered |-> gives.result.present,
     exit_code |-> gives.result.exit_code]

\* the commands of setup_environment from the i-th on: the exception that ends
\* them, if any, and the commands sent
RECURSIVE run_commands(_, _, _)
run_commands(commands, answers, i) ==
    IF i > Len(commands) THEN [raised |-> NoError, sent |-> << >>]
    ELSE LET gives == exec_command(answers[i])
             status == IF commands[i].checked THEN raise_for_status(gives.result)
                       ELSE NoError
             rest == run_commands(commands, answers, i + 1)
         IN
         IF gives.raised # NoError
         THEN [raised |-> gives.raised, sent |-> << Sent(commands[i].command, gives) >>]
         ELSE IF status # NoError
         THEN [raised |-> status, sent |-> << Sent(commands[i].command, gives) >>]
         ELSE [raised |-> rest.raised,
               sent |-> << Sent(commands[i].command, gives) >> \o rest.sent]

\* the record of one call; requests counts the HTTP requests it sent
NoClientCall(op) ==
    [op |-> op, kind |-> "", status |-> 0, requests |-> 0,
     raised |-> NoError, result |-> NoResult,
     dependency |-> NoDependency, upgrade_pip |-> FALSE, sent |-> << >>]

\* SandboxExecutor() before __aenter__
ExecutorInit ==
    /\ client_open = FALSE
    /\ environment_ready = FALSE
    /\ call = NoClientCall("init")

\* SandboxExecutor.__aenter__: the client is opened and the scripts directory made
ExecutorEnter ==
    \E answer \in Answers :
        LET gives == exec_command(answer) IN
        /\ client_open' = TRUE
        /\ call' = [NoClientCall("enter") EXCEPT !.kind = answer.kind,
                        !.status = answer.status, !.requests = 1,
                        !.raised = gives.raised, !.result = gives.result]
        /\ UNCHANGED environment_ready
        /\ UNCHANGED <<sandbox_vars, agent_vars, script_vars, match_vars, core_vars>>

\* SandboxExecutor.__aexit__
ExecutorExit ==
    /\ client_open' = FALSE
    /\ environment_ready' = FALSE
    /\ call' = NoClientCall("exit")
    /\ UNCHANGED <<sandbox_vars, agent_vars, script_vars, match_vars, core_vars>>

\* the answers a setup command gets
SetupAnswers == {Succeeded, Failed, ConnectFailure}

\* SandboxExecutor.setup_environment
SetupEnvironment ==
    \E dependency \in DependencyValues, upgrade_pip \in BOOLEAN :
    LET commands == setup_commands(dependency, upgrade_pip) IN
    \E answers \in [DOMAIN commands -> SetupAnswers] :
        LET r == IF client_open THEN run_commands(commands, answers, 1)
                 ELSE [raised |-> Error("RuntimeError", 0, ""), sent |-> << >>]
        IN
        /\ environment_ready' = IF r.raised = NoError THEN TRUE
                                ELSE environment_ready
        /\ call' = [NoClientCall("setup_environment") EXCEPT
                        !.raised = r.raised, !.dependency = dependency,
                        !.upgrade_pip = upgrade_pip, !.sent = r.sent]
        /\ UNCHANGED client_open
        /\ UNCHANGED <<sandbox_vars, agent_vars, script_vars, match_vars, core_vars>>

\* SandboxExecutor.mark_ready
MarkReady ==
    /\ environment_ready' = TRUE
    /\ call' = NoClientCall("mark_ready")
    /\ UNCHANGED client_open
    /\ UNCHANGED <<sandbox_vars, agent_vars, script_vars, match_vars, core_vars>>

\* an operation of the executor's client: _ensure_client, then one request
\* (each operation awaits client.post or client.get once, outside any loop)
ClientCall ==
    \E op \in ClientOps, answer \in Answers :
        LET gives == IF client_open THEN client_call(op, answer)
                     ELSE Gives(Error("RuntimeError", 0, ""), NoResult)
        IN
        /\ call' = [NoClientCall(op) EXCEPT
                        !.kind = IF client_open THEN answer.kind ELSE "",
                        !.status = IF client_open THEN answer.status ELSE 0,
                        !.requests = IF client_open THEN 1 ELSE 0,
                        !.raised = gives.raised, !.result = gives.result]
        /\ UNCHANGED <<client_open, environment_ready>>
        /\ UNCHANGED <<sandbox_vars, agent_vars, script_vars, match_vars, core_vars>>

\* raise_for_status on the result the last call returned
RaiseForStatus ==
    /\ call.result.present
    /\ call' = [NoClientCall("raise_for_status") EXCEPT
                    !.raised = raise_for_status(call.result),
                    !.result = call.result]
    /\ UNCHANGED <<client_open, environment_ready>>
    /\ UNCHANGED <<sandbox_vars, agent_vars, script_vars, match_vars, core_vars>>

ExecutorNext ==
    \/ ExecutorEnter \/ ExecutorExit \/ SetupEnvironment \/ MarkReady
    \/ ClientCall \/ RaiseForStatus

-----------------------------------------------------------------------------
(* SkillAgent: the registry it works on                                    *)

IDLE == "idle"
SKILL_ACTIVE == "skill_active"
AWAITING_CONFIRMATION == "awaiting_confirmation"
AgentState == {IDLE, SKILL_ACTIVE, AWAITING_CONFIRMATION}

ALWAYS == "always"
EXPLICIT == "explicit"
IMPLICIT == "implicit"

NoSkill == ""

\* the skills discover() registers
Skills == {"alpha", "beta"}

\* Skill.references in declared order. file is what the reference's path holds on
\* disk: a text, an empty file, or nothing. alpha is the scenario of one ALWAYS and
\* one EXPLICIT reference; paths are distinct across skills.
SkillReferences(skill) ==
    IF skill = "alpha"
    THEN << [path |-> "alpha/spec.md", mode |-> ALWAYS, file |-> "text"],
            [path |-> "alpha/budget.md", mode |-> EXPLICIT, file |-> "text"] >>
    ELSE IF skill = "beta"
    THEN << [path |-> "beta/guide.md", mode |-> IMPLICIT, file |-> "text"],
            [path |-> "beta/rules.md", mode |-> ALWAYS, file |-> "absent"] >>
    ELSE << >>

Range(seq) == {seq[i] : i \in DOMAIN seq}
PathsOf(refs) == [i \in DOMAIN refs |-> refs[i].path]
Paths == UNION {Range(PathsOf(SkillReferences(skill))) : skill \in Skills}

\* SkillResources.get_reference: whether the skill has a reference of that path
has_reference(skill, path) == path \in Range(PathsOf(SkillReferences(skill)))

get_reference(skill, path) ==
    LET refs == SkillReferences(skill) IN
    refs[CHOOSE i \in DOMAIN refs : refs[i].path = path]

\* the truth value Python gives a str | None: None and "" are false
truthy(content) == content = "text"

\* SkillManager.load_reference: what it returns ("none" = None, "empty" = "") and
\* Reference.content afterwards
load_reference(rc, skill, path) ==
    IF skill \notin Skills \/ ~has_reference(skill, path)
    THEN [content |-> "none", ref_content |-> rc]
    ELSE IF rc[path] # "none"
    THEN [content |-> rc[path], ref_content |-> rc]
    ELSE LET file == get_reference(skill, path).file IN
         IF file = "absent"
         THEN [content |-> "none", ref_content |-> rc]
         ELSE [content |-> file, ref_content |-> [rc EXCEPT ![path] = file]]

\* mutant of is_always: the mode is not looked at, every reference is graded
is_always_ignored(ref) == FALSE

\* ref.mode == ReferenceMode.ALWAYS
is_always(ref) == ref.mode = ALWAYS

is_graded(ref) == ~is_always(ref)

-----------------------------------------------------------------------------
(* SkillAgent: the answers of the advisory LLM calls and how they are read  *)

NotCalled == [status |-> "not_called", text |-> "", lines |-> << >>,
              numbers |-> << >>]
Raised == [NotCalled EXCEPT !.status = "raised"]

\* answers of the skill classification call
ClassifyTexts == {"\"Beta\"", "NONE", "beta skill"}
ClassifyInputs ==
    {Raised} \cup {[NotCalled EXCEPT !.status = "answered", !.text = t] :
                       t \in ClassifyTexts}

\* response.content.strip().strip('"').strip("'") in lower case
normalized(text) ==
    IF text = "\"Beta\"" THEN "beta"
    ELSE IF text = "NONE" THEN "none"
    ELSE text

\* mutant of llm_select_skill: an answer naming no skill falls back to a skill
llm_select_skill_lenient(classify) ==
    IF classify.status # "answered" THEN NoSkill
    ELSE IF \E name \in Skills : name = normalized(classify.text)
    THEN CHOOSE name \in Skills : name = normalized(classify.text)
    ELSE "beta"

\* SkillAgent._llm_select_skill: the selected skill name or NoSkill
llm_select_skill(classify) ==
    IF classify.status # "answered" THEN NoSkill
    ELSE IF \E name \in Skills : name = normalized(classify.text)
    THEN CHOOSE name \in Skills : name = normalized(classify.text)
    ELSE NoSkill

\* a line of the answer of the grading call: "<label><sep> <body>"
Line(label, sep, body) == [label |-> label, sep |-> sep, body |-> body]

\* answers of the grading call, as the lines of response.content
GradingTexts ==
    { << Line(1, ".", "NO") >>,
      << Line(1, ".", "YES") >>,
      << Line(2, ".", "NO"), Line(1, ":", "YES") >>,
      << Line(1, ")", "YES") >> }
GradingInputs ==
    {Raised} \cup {[NotCalled EXCEPT !.status = "answered", !.lines = ls] :
                       ls \in GradingTexts}

\* line.strip().startswith(f"{i}.") or line.strip().startswith(f"{i}:")
line_is_for(line, i) == line.label = i /\ line.sep \in {".", ":"}

\* mutant of says_yes: any line found for the reference counts as a yes
says_yes_always(line) == TRUE

\* "yes" in line.lower()
says_yes(line) == line.body = "YES"

\* mutant of evaluate_reference_conditions: a failed call loads every reference
evaluate_reference_conditions_eager(grading, n) ==
    [i \in 1..n |-> TRUE]

\* SkillAgent._evaluate_reference_conditions for n references: one boolean each
evaluate_reference_conditions(grading, n) ==
    IF grading.status # "answered"
    THEN [i \in 1..n |-> FALSE]
    ELSE [i \in 1..n |->
             IF \E k \in DOMAIN grading.lines : line_is_for(grading.lines[k], i)
             THEN LET k == CHOOSE k \in DOMAIN grading.lines :
                               /\ line_is_for(grading.lines[k], i)
                               /\ \A j \in 1..(k - 1) :
                                      ~line_is_for(grading.lines[j], i)
                  IN says_yes(grading.lines[k])
             ELSE FALSE]

\* answers of the recall call: the sentinel, or a text with the numbers in it
RecallInputs ==
    {Raised, [NotCalled EXCEPT !.status = "answered", !.text = "none"]}
        \cup {[NotCalled EXCEPT !.status = "answered", !.numbers = <<n>>] :
                  n \in 1..MaxRecallNumber}

\* SkillAgent._check_need_recall: the paths to reload
check_need_recall(recall, summaries) ==
    IF recall.status # "answered" \/ recall.text = "none" THEN << >>
    ELSE LET hits == SelectSeq(recall.numbers,
                               LAMBDA n : 0 <= n - 1 /\ n - 1 < Len(summaries))
         IN [i \in DOMAIN hits |-> summaries[hits[i]].path]

-----------------------------------------------------------------------------
(* SkillAgent: the steps of a turn                                         *)

\* the loading loop of _load_applicable_references over the given paths
RECURSIVE load_each(_, _, _)
load_each(skill, paths, st) ==
    IF paths = << >> THEN st
    ELSE LET lr == load_reference(st.ref_content, skill, Head(paths)) IN
         load_each(skill, Tail(paths),
             IF truthy(lr.content)
             THEN [ref_content |-> lr.ref_content,
                   loaded_references |-> Append(st.loaded_references, Head(paths)),
                   loaded |-> Append(st.loaded, Head(paths))]
             ELSE [st EXCEPT !.ref_content = lr.ref_content])

\* the references of the skill not yet in loaded_references
pending_references(skill, loaded) ==
    SelectSeq(SkillReferences(skill), LAMBDA r : r.path \notin Range(loaded))

\* refs_for_llm of _load_applicable_references
refs_for_llm(skill, loaded) ==
    PathsOf(SelectSeq(pending_references(skill, loaded), is_graded))

\* SkillAgent._load_applicable_references
load_applicable_references(skill, loaded, rc, grading) ==
    LET always_refs == PathsOf(SelectSeq(pending_references(skill, loaded), is_always))
        graded == refs_for_llm(skill, loaded)
        st1 == load_each(skill, always_refs,
                         [ref_content |-> rc, loaded_references |-> loaded,
                          loaded |-> << >>])
        results == evaluate_reference_conditions(grading, Len(graded))
        chosen == SelectSeq(graded, LAMBDA path :
                      \E i \in DOMAIN graded : graded[i] = path /\ results[i])
    IN IF graded # << >> THEN load_each(skill, chosen, st1) ELSE st1

\* SkillAgent._reload_reference
reload_reference(rc, skill, path) ==
    IF skill = NoSkill THEN [content |-> "none", ref_content |-> rc]
    ELSE load_reference(rc, skill, path)

\* the recall loop of chat: recalled_refs and Reference.content afterwards
RECURSIVE reload_each(_, _, _)
reload_each(skill, paths, st) ==
    IF paths = << >> THEN st
    ELSE LET lr == reload_reference(st.ref_content, skill, Head(paths)) IN
         reload_each(skill, Tail(paths),
             [ref_content |-> lr.ref_content,
              recalled |-> IF truthy(lr.content)
                           THEN Append(st.recalled, Head(paths)) ELSE st.recalled])

\* PromptBuilder.build_active_skill_prompt: the references shown with full content
build_active_skill_prompt(skill, rc) ==
    PathsOf(SelectSeq(SkillReferences(skill), LAMBDA r : truthy(rc[r.path])))

\* SkillAgent._build_system_prompt: the sections of the prompt
build_system_prompt(summaries, loaded, recalled, skill, rc) ==
    [summaries |-> PathsOf(SelectSeq(summaries, LAMBDA e :
                       e.path \notin Range(loaded) \/ e.path \in Range(recalled))),
     recalled |-> recalled,
     skill |-> skill,
     references |-> IF skill # NoSkill THEN build_active_skill_prompt(skill, rc)
                    ELSE << >>,
     catalog |-> skill = NoSkill]

\* the summary loop at the end of chat
RECURSIVE summarize_each(_, _, _, _, _)
summarize_each(skill, paths, rc, raises, summaries) ==
    IF paths = << >> THEN summaries
    ELSE LET path == Head(paths) IN
         summarize_each(skill, Tail(paths), rc, raises,
             IF /\ path \notin Range(PathsOf(summaries))
                /\ has_reference(skill, path)
                /\ truthy(rc[path])
             THEN Append(summaries,
                         [path |-> path,
                          summary |-> IF path \in raises THEN "prefix" ELSE "llm"])
             ELSE summaries)

\* SkillManager.match(content, limit=1): the skills a query can match by keyword
-----------------------------------------------------------------------------
(* SkillMatcher. A query, a trigger, a name are texts of words; scores are in  *)
(* thousandths. Containment of one text in another is containment of its words *)
(* in a row.                                                                   *)

EXACT_TRIGGER_SCORE == 1000
PARTIAL_TRIGGER_SCORE == 800
NAME_MATCH_SCORE == 700
DESCRIPTION_MATCH_SCORE == 500
TAG_MATCH_SCORE == 400

\* SkillMatcher.__init__: min_score of the matcher SkillManager constructs
DEFAULT_MIN_SCORE == 300

\* SkillAgent.__init__: the default of skill_match_threshold
DEFAULT_MATCH_THRESHOLD == 500

\* SkillMetadata of the registered skills, in the order of _metadata_index
Metadata ==
    << [name |-> "alpha", name_words |-> <<"alpha">>,
        description |-> <<"draw", "the", "data">>,
        triggers |-> << <<"make", "chart">> >>, tags |-> <<"plot">>],
       [name |-> "beta", name_words |-> <<"beta">>,
        description |-> <<"write">>,
        triggers |-> << >>, tags |-> << >>] >>

\* str.lower() of a word
lower_word(w) == IF w = "Chart" THEN "chart" ELSE w

\* str.lower() of a text
lower(text) == [i \in DOMAIN text |-> lower_word(text[i])]

\* `a in b` of two texts
contains(b, a) ==
    \E k \in 0..(Len(b) - Len(a)) : \A i \in DOMAIN a : b[k + i] = a[i]

\* the stop words among the words of the model, and its words of fewer than three
\* letters
StopWords == {"the"}
ShortWords == {"a"}

\* SkillMatcher._extract_keywords
extract_keywords(text) == Range(lower(text)) \ (StopWords \cup ShortWords)

Max(a, b) == IF a > b THEN a ELSE b

\* the best score the triggers from the i-th on give (the loop over triggers);
\* an exact match ends the scoring with EXACT_TRIGGER_SCORE
RECURSIVE trigger_score(_, _, _)
trigger_score(query_lower, triggers, i) ==
    IF i > Len(triggers) THEN 0
    ELSE LET trigger_lower == lower(triggers[i])
             here == IF contains(query_lower, trigger_lower)
                     THEN PARTIAL_TRIGGER_SCORE
                     ELSE IF /\ trigger_lower # << >>
                             /\ Range(trigger_lower) \subseteq Range(query_lower)
                     THEN (PARTIAL_TRIGGER_SCORE * 9) \div 10
                     ELSE 0
         IN
         IF trigger_lower = query_lower THEN EXACT_TRIGGER_SCORE
         ELSE Max(here, trigger_score(query_lower, triggers, i + 1))

\* SkillMatcher._score_match: the score, 0 for no match
score_match(query, metadata) ==
    LET query_lower == lower(query)
        by_trigger == trigger_score(query_lower, metadata.triggers, 1)
        name_lower == lower(metadata.name_words)
        by_name == IF contains(query_lower, name_lower)
                      \/ contains(name_lower, query_lower)
                   THEN NAME_MATCH_SCORE
                   ELSE IF /\ name_lower # << >>
                           /\ Range(name_lower) \subseteq Range(query_lower)
                   THEN (NAME_MATCH_SCORE * 9) \div 10
                   ELSE 0
        desc_words == extract_keywords(metadata.description)
        common_words == desc_words \cap Range(query_lower)
        by_description ==
            IF common_words # {}
            THEN (DESCRIPTION_MATCH_SCORE
                    * (Cardinality(desc_words) + Cardinality(common_words)))
                 \div (2 * Max(Cardinality(desc_words), 1))
            ELSE 0
        by_tag == IF \E i \in DOMAIN metadata.tags :
                         contains(query_lower, << lower_word(metadata.tags[i]) >>)
                  THEN TAG_MATCH_SCORE ELSE 0
    IN
    IF by_trigger = EXACT_TRIGGER_SCORE THEN EXACT_TRIGGER_SCORE
    ELSE Max(Max(by_trigger, by_name), Max(by_description, by_tag))

\* list.sort(key=score, reverse=True): stable, the highest score first
RECURSIVE sort_by_score(_)
sort_by_score(results) ==
    IF results = << >> THEN << >>
    ELSE LET i == CHOOSE i \in DOMAIN results :
                      /\ \A j \in DOMAIN results : results[j].score <= results[i].score
                      /\ \A j \in 1..(i - 1) : results[j].score < results[i].score
         IN << results[i] >> \o sort_by_score(RemoveAt(results, i))

\* mutant of match: the results are left in the order of the metadata list
match_unsorted(query, metadata_list, min_score, limit) ==
    LET results == SelectSeq(
            [i \in DOMAIN metadata_list |->
                [name |-> metadata_list[i].name,
                 score |-> score_match(query, metadata_list[i])]],
            LAMBDA r : r.score > 0 /\ r.score >= min_score)
    IN [i \in 1..(IF Len(results) < limit THEN Len(results) ELSE limit) |->
           results[i].name]

\* SkillMatcher.match: the names of the matching skills
match(query, metadata_list, min_score, limit) ==
    LET results == SelectSeq(
            [i \in DOMAIN metadata_list |->
                [name |-> metadata_list[i].name,
                 score |-> score_match(query, metadata_list[i])]],
            LAMBDA r : r.score > 0 /\ r.score >= min_score)
        sorted == sort_by_score(results)
    IN [i \in 1..(IF Len(sorted) < limit THEN Len(sorted) ELSE limit) |->
           sorted[i].name]

\* SkillManager.match(content, limit=1) as chat uses it: the first name, if any
first_match(query) ==
    LET matched == match(query, Metadata, DEFAULT_MIN_SCORE, 1) IN
    IF matched = << >> THEN NoSkill ELSE matched[1]

\* user messages: the trigger of alpha in other letter case, text around it, its
\* words in another order, the name of alpha, a tag of alpha, one keyword of
\* alpha's description, the keyword of beta's description beside alpha's tag,
\* and a text that matches nothing
ExactTrigger == <<"make", "Chart">>
AroundTrigger == <<"please", "make", "chart">>
TriggerWords == <<"chart", "please", "make">>
ByName == <<"alpha">>
ByTag == <<"a", "plot">>
ByKeyword == <<"draw">>
TwoSkills == <<"plot", "write">>
Unrelated == <<"hello">>
Queries == {ExactTrigger, AroundTrigger, TriggerWords, ByName, ByTag, ByKeyword,
            TwoSkills, Unrelated}
NoQuery == << >>

\* SkillManager._skills: empty until discover() has run
registry(is_initialized) == IF is_initialized THEN Skills ELSE {}

\* mutant of deselect_skill: the summaries are dropped with the skill
deselect_skill_forgets_summaries(ctx) ==
    [ctx EXCEPT !.active_skill = NoSkill, !.state = IDLE,
                !.loaded_references = << >>, !.reference_summaries = << >>]

\* mutant of deselect_skill: the state is left as it was
deselect_skill_keeps_state(ctx) ==
    [ctx EXCEPT !.active_skill = NoSkill, !.loaded_references = << >>]

\* SkillAgent.deselect_skill
deselect_skill(ctx) ==
    [ctx EXCEPT !.active_skill = NoSkill, !.state = IDLE,
                !.loaded_references = << >>]

\* SkillAgent.select_skill: found is its return value
select_skill(skills, skill_name, ctx) ==
    IF skill_name \notin skills
    THEN [found |-> FALSE, ctx |-> ctx]
    ELSE [found |-> TRUE,
          ctx |-> [ctx EXCEPT !.active_skill = skill_name,
                              !.state = SKILL_ACTIVE,
                              !.instruction_loaded = @ \cup {skill_name}]]

\* ConversationContext(): the conversation an agent starts with and reset() restores
NewContext(loaded_instructions) ==
    [messages |-> << >>, active_skill |-> NoSkill, state |-> IDLE,
     loaded_references |-> << >>, reference_summaries |-> << >>,
     instruction_loaded |-> loaded_instructions]

Context ==
    [messages |-> messages, active_skill |-> active_skill, state |-> state,
     loaded_references |-> loaded_references,
     reference_summaries |-> reference_summaries,
     instruction_loaded |-> instruction_loaded]

NoPrompt == [summaries |-> << >>, recalled |-> << >>, skill |-> NoSkill,
             references |-> << >>, catalog |-> FALSE]

\* the record of one agent call
NoTurn(op) ==
    [op |-> op, returned |-> FALSE, result |-> FALSE, skill |-> NoSkill,
     matched |-> NoSkill, classify |-> NotCalled, grading |-> NotCalled,
     recall |-> NotCalled, main |-> "not_called", summary_raised |-> {},
     loaded_before |-> << >>, graded |-> << >>,
     skill_used |-> NoSkill, references_loaded |-> << >>, recalled |-> << >>,
     prompt |-> NoPrompt, query |-> NoQuery, response |-> << >>, runs |-> << >>,
     script |-> << >>,
     scripts_executed |-> << >>, raised |-> ""]

SetContext(ctx) ==
    /\ messages' = ctx.messages
    /\ active_skill' = ctx.active_skill
    /\ state' = ctx.state
    /\ loaded_references' = ctx.loaded_references
    /\ reference_summaries' = ctx.reference_summaries
    /\ instruction_loaded' = ctx.instruction_loaded

\* SkillAgent.__init__: the defaults (both switches on), both switched off, or
\* only the loading of references switched off
Configurations ==
    {[auto_select_skill |-> TRUE, auto_load_references |-> TRUE],
     [auto_select_skill |-> FALSE, auto_load_references |-> FALSE],
     [auto_select_skill |-> TRUE, auto_load_references |-> FALSE]}

\* SkillAgent(...) before initialize
AgentInit ==
    /\ \E c \in Configurations :
           /\ auto_select_skill = c.auto_select_skill
           /\ auto_load_references = c.auto_load_references
    /\ initialized = FALSE
    /\ messages = << >>
    /\ active_skill = NoSkill
    /\ state = IDLE
    /\ loaded_references = << >>
    /\ reference_summaries = << >>
    /\ instruction_loaded = {}
    /\ ref_content = [path \in Paths |-> "none"]
    /\ turn = NoTurn("init")

\* SkillAgent.initialize
Initialize ==
    /\ ~initialized
    /\ initialized' = TRUE
    /\ discovered' = TRUE
    /\ turn' = [NoTurn("initialize") EXCEPT !.returned = TRUE]
    /\ dispatched' = << >>
    /\ UNCHANGED <<auto_select_skill, auto_load_references, messages, active_skill,
                   state, loaded_references, reference_summaries,
                   instruction_loaded, ref_content>>
    /\ UNCHANGED <<auto_execute_scripts, use_sandbox, llm_texts>>
    /\ UNCHANGED <<sandbox_vars, match_vars, client_vars, core_vars>>

\* SkillAgent.select_skill called by the application
SelectSkill ==
    \E skill_name \in Skills :
        LET r == select_skill(registry(discovered), skill_name, Context) IN
        /\ SetContext(r.ctx)
        /\ turn' = [NoTurn("select_skill") EXCEPT !.returned = TRUE,
                        !.result = r.found, !.skill = skill_name]
        /\ dispatched' = << >>
        /\ UNCHANGED <<auto_select_skill, auto_load_references, initialized,
                       ref_content>>
        /\ UNCHANGED <<auto_execute_scripts, use_sandbox, discovered, llm_texts>>
        /\ UNCHANGED <<sandbox_vars, match_vars, client_vars, core_vars>>

\* SkillAgent.deselect_skill called by the application
DeselectSkill ==
    /\ SetContext(deselect_skill(Context))
    /\ turn' = [NoTurn("deselect_skill") EXCEPT !.returned = TRUE]
    /\ dispatched' = << >>
    /\ UNCHANGED <<auto_select_skill, auto_load_references, initialized,
                   ref_content>>
    /\ UNCHANGED <<auto_execute_scripts, use_sandbox, discovered, llm_texts>>
    /\ UNCHANGED <<sandbox_vars, match_vars, client_vars, core_vars>>

\* SkillAgent.reset
Reset ==
    /\ SetContext(NewContext(instruction_loaded))
    /\ turn' = [NoTurn("reset") EXCEPT !.returned = TRUE]
    /\ dispatched' = << >>
    /\ UNCHANGED <<auto_select_skill, auto_load_references, initialized,
                   ref_content>>
    /\ UNCHANGED <<auto_execute_scripts, use_sandbox, discovered, llm_texts>>
    /\ UNCHANGED <<sandbox_vars, match_vars, client_vars, core_vars>>

-----------------------------------------------------------------------------
(* Script invocations in a response. A text is a sequence of tokens: the      *)
(* marker opening "[INVOKE:", words (runs of \w characters), "(", ")", "]",   *)
(* a line break, and " " for any other run of characters.                     *)

INVOKE == "[INVOKE:"
Words == {"upload", "report", "plot", "hello", "x"}

\* \w+ from position p: the position after the longest run of words (p if none)
RECURSIVE word_run_end(_, _)
word_run_end(text, p) ==
    IF p <= Len(text) /\ text[p] \in Words THEN word_run_end(text, p + 1) ELSE p

NoMatch == [found |-> FALSE, name |-> << >>, args |-> << >>, next |-> 0]

\* a match of \[INVOKE:(\w+)(?:\((.*?)\))?\] starting at position i
invocation_at(text, i) ==
    LET p == word_run_end(text, i + 1)
        \* the positions of a ")" followed by "]" that .*? can stop before
        closes == {q \in (p + 1)..(Len(text) - 1) :
                      /\ text[q] = ")" /\ text[q + 1] = "]"
                      /\ \A k \in (p + 1)..(q - 1) : text[k] # "\n"}
    IN
    IF ~(i <= Len(text) /\ text[i] = INVOKE /\ p > i + 1 /\ p <= Len(text))
    THEN NoMatch
    ELSE IF text[p] = "(" /\ closes # {}
    THEN LET q == CHOOSE q \in closes : \A r \in closes : q <= r IN
         [found |-> TRUE, name |-> SubSeq(text, i + 1, p - 1),
          args |-> SubSeq(text, p + 1, q - 1), next |-> q + 2]
    ELSE IF text[p] = "]"
    THEN [found |-> TRUE, name |-> SubSeq(text, i + 1, p - 1), args |-> << >>,
          next |-> p + 1]
    ELSE NoMatch

\* PromptBuilder.extract_script_invocations: re.findall from position i on
RECURSIVE extract_from(_, _)
extract_from(text, i) ==
    IF i > Len(text) THEN << >>
    ELSE LET m == invocation_at(text, i) IN
         IF m.found
         THEN << [name |-> m.name, args |-> m.args] >> \o extract_from(text, m.next)
         ELSE extract_from(text, i + 1)

extract_script_invocations(text) == extract_from(text, 1)

\* a match of \[INVOKE:\w+(?:\([^)]*\))?\] starting at position i: the position
\* after it, or 0
marker_end(text, i) ==
    LET p == word_run_end(text, i + 1)
        closes == {q \in (p + 1)..Len(text) : text[q] = ")"}
        q == IF closes = {} THEN 0
             ELSE CHOOSE q \in closes : \A r \in closes : q <= r
    IN
    IF ~(i <= Len(text) /\ text[i] = INVOKE /\ p > i + 1 /\ p <= Len(text))
    THEN 0
    ELSE IF text[p] = "(" /\ q # 0 /\ q < Len(text) /\ text[q + 1] = "]"
    THEN q + 2
    ELSE IF text[p] = "]" THEN p + 1
    ELSE 0

\* re.sub(r"\[INVOKE:\w+(?:\([^)]*\))?\]", "", response) from position i on
RECURSIVE remove_markers_from(_, _)
remove_markers_from(text, i) ==
    IF i > Len(text) THEN << >>
    ELSE LET e == marker_end(text, i) IN
         IF e # 0 THEN remove_markers_from(text, e)
         ELSE << text[i] >> \o remove_markers_from(text, i + 1)

Whitespace == {" ", "\n"}

\* str.strip()
RECURSIVE strip(_)
strip(text) ==
    IF text = << >> THEN text
    ELSE IF Head(text) \in Whitespace THEN strip(Tail(text))
    ELSE IF text[Len(text)] \in Whitespace THEN strip(SubSeq(text, 1, Len(text) - 1))
    ELSE text

\* input_data of _handle_script_invocations for one invocation
input_data_for(args, response) ==
    IF args # << >> THEN args ELSE strip(remove_markers_from(response, 1))

\* response contents: plain text, one marker with and without args, a marker of a
\* script whose file is missing before a good one, the same marker twice, a marker
\* of an unknown script, a marker whose args themselves hold parentheses
PlainText == <<" ">>
WithArgs == <<" ", INVOKE, "upload", "(", "hello", ")", "]", " ">>
WithoutArgs == <<"hello", " ", INVOKE, "upload", "]", "\n">>
MissingThenGood == <<INVOKE, "report", "]", " ", INVOKE, "upload", "]">>
Twice == <<INVOKE, "upload", "]", "x", INVOKE, "upload", "]">>
UnknownScript == <<INVOKE, "plot", "]", "x">>
NestedArgs == <<INVOKE, "upload", "]", " ",
                INVOKE, "report", "(", "x", "(", "hello", ")", ")", "]">>
Responses == {PlainText, WithArgs, WithoutArgs, MissingThenGood, Twice,
              UnknownScript, NestedArgs}

-----------------------------------------------------------------------------
(* SkillManager.execute_script and the executors it dispatches to.            *)

\* Skill.resources.scripts. A script name is the text of one word; file tells
\* whether the resolved script path exists, outputs whether Script.outputs is
\* non-empty. "plot" is no script of alpha.
SkillScripts(skill) ==
    IF skill = "alpha"
    THEN << [name |-> <<"upload">>, file |-> TRUE, outputs |-> TRUE],
            [name |-> <<"report">>, file |-> FALSE, outputs |-> FALSE] >>
    ELSE IF skill = "beta"
    THEN << [name |-> <<"plot">>, file |-> TRUE, outputs |-> FALSE] >>
    ELSE << >>

\* Skill.resources.dependency.has_dependencies(): alpha declares packages
SkillDependency(skill) == IF skill = "alpha" THEN "deps" ELSE "none"

NoScript == [name |-> << >>, file |-> FALSE, outputs |-> FALSE]

\* SkillResources.get_script: the first script of that name, or None
get_script(skill, script_name) ==
    LET found == SelectSeq(SkillScripts(skill), LAMBDA sc : sc.name = script_name) IN
    IF found = << >> THEN NoScript ELSE Head(found)

\* payloads a caller passes as input_data: nothing, a text, the path of a file
\* that exists locally
LocalFile == <<"/data/in.csv">>
Payloads == {<< >>, <<"hello">>, LocalFile}

\* the script names a caller asks for
ScriptNames == {<<"upload">>, <<"report">>, <<"plot">>}

\* os.path.isfile(input_data), for a payload that is no JSON
isfile(input_data) == input_data = LocalFile

\* SkillManager._upload_single_file: the sandbox path of the uploaded file
upload_single_file(input_data) == <<"/home/gem/uploads/in.csv">>

\* what happens to the remote steps of one execution: all succeed, or the named
\* step is the first to raise (obtaining the executor, an upload, the run)
RunOutcomes == {"none", "executor", "upload", "run"}

\* the outcome of the remote calls of get_executor
executor_outcome(o) == IF o = "executor" THEN "raises" ELSE "ok"

Event(step, skill_name, script_name, input_data) ==
    [step |-> step, skill |-> skill_name, script |-> script_name,
     input_data |-> input_data]

\* the pool as it is, for an execution that does not touch it
PoolNow(value, raised) ==
    CallResult(cache, persistent_executor, installed_deps, executors, value, raised)

\* what one execute_script call does: the exception it raises ("" when it
\* returns), the steps it made the executors do, and the pool it leaves
Execution(raised, events, pool) ==
    [raised |-> raised, events |-> events, pool |-> pool]

\* mutant of execute_in_sandbox: the declared outputs are fetched before the run
execute_in_sandbox_fetching_first(skill_name, script, input_data, o) ==
    LET got == get_executor(skill_name, SkillDependency(skill_name),
                            executor_outcome(o))
        e1 == << Event("get_executor", skill_name, script.name, input_data) >>
        e2 == IF script.outputs
              THEN Append(e1, Event("download", skill_name, script.name, input_data))
              ELSE e1
    IN
    IF ~active THEN Execution("RuntimeError", << >>, PoolNow(NoExecutor, ""))
    ELSE IF got.raised # "" THEN Execution(got.raised, e1, got)
    ELSE IF o = "run"
    THEN Execution("SandboxError",
                   Append(e2, Event("execute", skill_name, script.name, input_data)),
                   got)
    ELSE Execution("", Append(e2, Event("execute", skill_name, script.name,
                                        input_data)), got)

\* SkillManager._execute_in_sandbox
execute_in_sandbox(skill_name, script, input_data, o) ==
    LET got == get_executor(skill_name, SkillDependency(skill_name),
                            executor_outcome(o))
        e1 == << Event("get_executor", skill_name, script.name, input_data) >>
        uploading == isfile(input_data)
        e2 == IF uploading
              THEN Append(e1, Event("upload", skill_name, script.name, input_data))
              ELSE e1
        sent == IF uploading THEN upload_single_file(input_data) ELSE input_data
        e3 == Append(e2, Event("execute", skill_name, script.name, sent))
        e4 == IF script.outputs
              THEN Append(e3, Event("download", skill_name, script.name, sent))
              ELSE e3
    IN
    IF ~active THEN Execution("RuntimeError", << >>, PoolNow(NoExecutor, ""))
    ELSE IF got.raised # "" THEN Execution(got.raised, e1, got)
    ELSE IF uploading /\ o = "upload" THEN Execution("SandboxError", e2, got)
    ELSE IF o = "run" THEN Execution("SandboxError", e3, got)
    ELSE Execution("", e4, got)

\* the use_sandbox argument of execute_script: not given, True or False
Unset == "unset"
Overrides == {Unset, "yes", "no"}

\* should_use_sandbox of execute_script
should_use_sandbox(sandboxed) ==
    IF sandboxed = Unset THEN use_sandbox ELSE sandboxed = "yes"

\* mutant of execute_script: the existence of the script file is not checked
execute_script_unchecked_file(skills, skill_name, script_name, sandboxed, input_data, o) ==
    LET script == get_script(skill_name, script_name) IN
    IF skill_name \notin skills
    THEN Execution("ValueError", << >>, PoolNow(NoExecutor, ""))
    ELSE IF script = NoScript
    THEN Execution("ValueError", << >>, PoolNow(NoExecutor, ""))
    ELSE IF should_use_sandbox(sandboxed)
    THEN execute_in_sandbox(skill_name, script, input_data, o)
    ELSE Execution(IF o = "run" THEN "ScriptExecutionError" ELSE "",
                   << Event("local_execute", skill_name, script_name, input_data) >>,
                   PoolNow(NoExecutor, ""))

\* SkillManager.execute_script
execute_script(skills, skill_name, script_name, sandboxed, input_data, o) ==
    LET script == get_script(skill_name, script_name) IN
    IF skill_name \notin skills
    THEN Execution("ValueError", << >>, PoolNow(NoExecutor, ""))
    ELSE IF script = NoScript
    THEN Execution("ValueError", << >>, PoolNow(NoExecutor, ""))
    ELSE IF ~script.file
    THEN Execution("ValueError", << >>, PoolNow(NoExecutor, ""))
    ELSE IF should_use_sandbox(sandboxed)
    THEN execute_in_sandbox(skill_name, script, input_data, o)
    ELSE Execution(IF o = "run" THEN "ScriptExecutionError" ELSE "",
                   << Event("local_execute", skill_name, script_name, input_data) >>,
                   PoolNow(NoExecutor, ""))

\* mutant of should_handle: the switch is not consulted
should_handle_any(auto_execute, skill) == skill # NoSkill

\* the condition under which chat looks for invocations in the response
should_handle(auto_execute, skill) == auto_execute /\ skill # NoSkill

\* the local executor has one remote step, the run
LocalOutcome(run) == IF run = "raises" THEN "run" ELSE "none"

NothingHandled == [executed |-> << >>, events |-> << >>]

\* mutant of handle_each: the loop ends at the first invocation that raises
RECURSIVE handle_each_until_failure(_, _, _, _, _)
handle_each_until_failure(skill, invocations, response, runs, i) ==
    IF i > Len(invocations) THEN NothingHandled
    ELSE LET r == execute_script(registry(TRUE), skill, invocations[i].name,
                      Unset, input_data_for(invocations[i].args, response),
                      LocalOutcome(runs[i]))
             rest == handle_each_until_failure(skill, invocations, response, runs,
                                               i + 1)
         IN
         IF r.raised # "" THEN [executed |-> << >>, events |-> r.events]
         ELSE [executed |-> << invocations[i].name >> \o rest.executed,
               events |-> r.events \o rest.events]

\* the loop of _handle_script_invocations from the i-th invocation on: the names
\* appended to executed and what the executor was made to do
RECURSIVE handle_each(_, _, _, _, _)
handle_each(skill, invocations, response, runs, i) ==
    IF i > Len(invocations) THEN NothingHandled
    ELSE LET r == execute_script(registry(TRUE), skill, invocations[i].name,
                      Unset, input_data_for(invocations[i].args, response),
                      LocalOutcome(runs[i]))
             rest == handle_each(skill, invocations, response, runs, i + 1)
         IN
         [executed |-> (IF r.raised = "" THEN << invocations[i].name >> ELSE << >>)
                           \o rest.executed,
          events |-> r.events \o rest.events]

\* SkillAgent._handle_script_invocations
handle_script_invocations(skill, response, runs) ==
    IF skill = NoSkill THEN NothingHandled
    ELSE handle_each(skill, extract_script_invocations(response), response, runs, 1)

\* the paths of references_loaded the summary loop asks the LLM about
to_summarize(skill, paths, rc, summaries) ==
    {path \in Range(paths) : /\ path \notin Range(PathsOf(summaries))
                             /\ has_reference(skill, path)
                             /\ truthy(rc[path])}

\* SkillAgent.chat: one turn of a conversation of at most limit messages. The
\* matcher's result and the answer of each LLM call are inputs, drawn only for the
\* calls the turn makes.
chat(limit) ==
    /\ Len(messages) + 2 <= limit
    /\ LET selecting == auto_select_skill /\ active_skill = NoSkill
           ctx0 == [Context EXCEPT !.messages = Append(@, "user")]
       IN
       \E query \in (IF selecting THEN queries ELSE {NoQuery}) :
       \E matched \in {IF selecting THEN first_match(query) ELSE NoSkill} :
       \E classify \in (IF selecting /\ matched = NoSkill
                        THEN ClassifyInputs ELSE {NotCalled}) :
       LET chosen == IF matched # NoSkill THEN matched
                     ELSE llm_select_skill(classify)
           ctx1 == IF selecting /\ chosen # NoSkill
                   THEN select_skill(registry(TRUE), chosen, ctx0).ctx ELSE ctx0
           skill == ctx1.active_skill
           loading == auto_load_references /\ skill # NoSkill
           graded == IF loading THEN refs_for_llm(skill, ctx1.loaded_references)
                     ELSE << >>
       IN
       \E grading \in (IF graded # << >> THEN GradingInputs ELSE {NotCalled}) :
       \E recall \in (IF reference_summaries # << >>
                      THEN RecallInputs ELSE {NotCalled}) :
       \E main \in Outcomes :
       LET la == IF loading
                 THEN load_applicable_references(skill, ctx1.loaded_references,
                                                 ref_content, grading)
                 ELSE [ref_content |-> ref_content,
                       loaded_references |-> ctx1.loaded_references,
                       loaded |-> << >>]
           need_recall == check_need_recall(recall, reference_summaries)
           rl == reload_each(skill, need_recall,
                             [ref_content |-> la.ref_content, recalled |-> << >>])
           system_prompt == build_system_prompt(reference_summaries,
                                la.loaded_references, rl.recalled, skill,
                                rl.ref_content)
           asked == IF main = "ok" /\ skill # NoSkill
                    THEN to_summarize(skill, la.loaded, rl.ref_content,
                                      reference_summaries)
                    ELSE {}
       IN
       \E raises \in SUBSET asked :
       \E response \in (IF main = "ok" THEN llm_texts ELSE {<< >>}) :
       LET handling == main = "ok" /\ should_handle(auto_execute_scripts, skill)
           invocations == IF handling THEN extract_script_invocations(response)
                          ELSE << >>
       IN
       \E runs \in [DOMAIN invocations -> Outcomes] :
       LET handled == IF handling
                      THEN handle_script_invocations(skill, response, runs)
                      ELSE NothingHandled
       IN
           /\ initialized' = TRUE
           /\ discovered' = TRUE
           /\ dispatched' = handled.events
           /\ ref_content' = rl.ref_content
           /\ SetContext(
                  [ctx1 EXCEPT
                      !.loaded_references = la.loaded_references,
                      !.messages = IF main = "ok" THEN Append(@, "assistant") ELSE @,
                      !.reference_summaries =
                          IF main = "ok" /\ skill # NoSkill
                          THEN summarize_each(skill, la.loaded, rl.ref_content,
                                              raises, @)
                          ELSE @])
           /\ turn' = [NoTurn("chat") EXCEPT
                          !.returned = (main = "ok"),
                          !.matched = matched,
                          !.classify = classify,
                          !.grading = grading,
                          !.recall = recall,
                          !.main = main,
                          !.summary_raised = raises,
                          !.loaded_before = ctx1.loaded_references,
                          !.graded = graded,
                          !.skill_used = IF main = "ok" THEN skill ELSE NoSkill,
                          !.references_loaded = la.loaded,
                          !.recalled = rl.recalled,
                          !.prompt = system_prompt,
                          !.query = query,
                          !.response = response,
                          !.runs = runs,
                          !.scripts_executed = handled.executed,
                          !.raised = IF main = "ok" THEN "" ELSE "LLMError"]
           /\ UNCHANGED <<auto_select_skill, auto_load_references>>
           /\ UNCHANGED <<auto_execute_scripts, use_sandbox, llm_texts>>
           /\ UNCHANGED <<sandbox_vars, match_vars, client_vars, core_vars>>

\* a turn of a short conversation
Chat == chat(MaxMessages)

\* a turn of a conversation long enough for three completed turns
LongChat == chat(MaxHistory)

\* the pool as an execute_script call leaves it
SetPool(r) ==
    /\ Len(r.pool.executors) <= MaxSessions
    /\ cache' = r.pool.cache
    /\ persistent_executor' = r.pool.persistent_executor
    /\ installed_deps' = r.pool.installed_deps
    /\ executors' = r.pool.executors
    /\ UNCHANGED <<strategy, cache_size, active, use_order, last_call>>

\* the call gets past the checks of execute_script: only then is the payload
\* looked at and a remote step made
Dispatching(skills, skill_name, script_name) ==
    skill_name \in skills /\ get_script(skill_name, script_name).file

\* the payloads that make a difference to a call
PayloadsFor(skills, skill_name, script_name) ==
    IF Dispatching(skills, skill_name, script_name) THEN Payloads ELSE {<< >>}

\* the outcomes of the remote steps that make a difference to a call
OutcomesFor(skills, skill_name, script_name, sandboxed) ==
    IF ~Dispatching(skills, skill_name, script_name) THEN {"none"}
    ELSE IF should_use_sandbox(sandboxed) THEN RunOutcomes
    ELSE {LocalOutcome(run) : run \in Outcomes}

\* SkillAgent.execute_script called by the application
ExecuteScript ==
    \E script_name \in ScriptNames :
    \E input_data \in PayloadsFor(registry(discovered), active_skill, script_name) :
    \E o \in OutcomesFor(registry(discovered), active_skill, script_name, Unset) :
        LET r == IF active_skill = NoSkill
                 THEN Execution("ValueError", << >>, PoolNow(NoExecutor, ""))
                 ELSE execute_script(registry(discovered), active_skill,
                                     script_name, Unset, input_data, o)
        IN
        /\ SetPool(r)
        /\ dispatched' = r.events
        /\ turn' = [NoTurn("execute_script") EXCEPT
                       !.returned = (r.raised = ""),
                       !.skill = active_skill,
                       !.script = script_name,
                       !.raised = r.raised]
        /\ UNCHANGED <<auto_select_skill, auto_load_references, initialized,
                       messages, active_skill, state, loaded_references,
                       reference_summaries, instruction_loaded, ref_content>>
        /\ UNCHANGED <<auto_execute_scripts, use_sandbox, discovered, llm_texts>>
        /\ UNCHANGED <<match_vars, client_vars, core_vars>>

-----------------------------------------------------------------------------
(* SkillManager used directly                                              *)

\* the skill names a caller asks for; "gamma" is not registered
AskedSkills == Skills \cup {"gamma"}

\* SkillManager.__aenter__: in sandbox mode a new SandboxManager is constructed
\* and entered, and warmup asks it for the "_default" executor
ManagerEnter ==
    \E outcome \in Outcomes :
        LET cr == create_executor(executors, "_default", "none", outcome) IN
        /\ IF use_sandbox
           THEN /\ Len(cr.executors) <= MaxSessions
                /\ active' = TRUE
                /\ cache' = << >>
                /\ installed_deps' = {}
                /\ persistent_executor' = cr.value
                /\ executors' = cr.executors
                /\ turn' = [NoTurn("manager.enter") EXCEPT
                               !.returned = (cr.raised = ""), !.raised = cr.raised]
                /\ UNCHANGED <<strategy, cache_size, use_order, last_call>>
           ELSE /\ turn' = [NoTurn("manager.enter") EXCEPT !.returned = TRUE]
                /\ UNCHANGED sandbox_vars
        /\ dispatched' = << >>
        /\ UNCHANGED <<auto_select_skill, auto_load_references, initialized,
                       messages, active_skill, state, loaded_references,
                       reference_summaries, instruction_loaded, ref_content>>
        /\ UNCHANGED <<auto_execute_scripts, use_sandbox, discovered, llm_texts>>
        /\ UNCHANGED <<match_vars, client_vars, core_vars>>

\* SkillManager.__aexit__
ManagerExit ==
    /\ IF active
       THEN /\ cache' = cleanup.cache
            /\ persistent_executor' = cleanup.persistent_executor
            /\ installed_deps' = cleanup.installed_deps
            /\ executors' = cleanup.executors
            /\ active' = FALSE
            /\ UNCHANGED <<strategy, cache_size, use_order, last_call>>
       ELSE UNCHANGED sandbox_vars
    /\ turn' = [NoTurn("manager.exit") EXCEPT !.returned = TRUE]
    /\ dispatched' = << >>
    /\ UNCHANGED <<auto_select_skill, auto_load_references, initialized,
                   messages, active_skill, state, loaded_references,
                   reference_summaries, instruction_loaded, ref_content>>
    /\ UNCHANGED <<auto_execute_scripts, use_sandbox, discovered, llm_texts>>
    /\ UNCHANGED <<match_vars, client_vars, core_vars>>

\* SkillManager.discover
Discover ==
    /\ discovered' = TRUE
    /\ turn' = [NoTurn("manager.discover") EXCEPT !.returned = TRUE]
    /\ dispatched' = << >>
    /\ UNCHANGED <<auto_select_skill, auto_load_references, initialized,
                   messages, active_skill, state, loaded_references,
                   reference_summaries, instruction_loaded, ref_content>>
    /\ UNCHANGED <<auto_execute_scripts, use_sandbox, llm_texts>>
    /\ UNCHANGED <<sandbox_vars, match_vars, client_vars, core_vars>>

\* SkillManager.execute_script called by the application
ManagerExecuteScript ==
    \E skill_name \in AskedSkills, script_name \in ScriptNames,
       sandboxed \in Overrides :
    \E input_data \in PayloadsFor(registry(discovered), skill_name, script_name) :
    \E o \in OutcomesFor(registry(discovered), skill_name, script_name, sandboxed) :
        LET r == execute_script(registry(discovered), skill_name, script_name,
                                sandboxed, input_data, o)
        IN
        /\ SetPool(r)
        /\ dispatched' = r.events
        /\ turn' = [NoTurn("manager.execute_script") EXCEPT
                       !.returned = (r.raised = ""),
                       !.skill = skill_name,
                       !.script = script_name,
                       !.raised = r.raised]
        /\ UNCHANGED <<auto_select_skill, auto_load_references, initialized,
                       messages, active_skill, state, loaded_references,
                       reference_summaries, instruction_loaded, ref_content>>
        /\ UNCHANGED <<auto_execute_scripts, use_sandbox, discovered, llm_texts>>
        /\ UNCHANGED <<match_vars, client_vars, core_vars>>

\* an application that drives the manager, and execute_script of an agent that
\* has no skill selected
RunNext ==
    \/ ManagerEnter \/ ManagerExit \/ Discover \/ ManagerExecuteScript
    \/ ExecuteScript

AgentNext == Initialize \/ SelectSkill \/ DeselectSkill \/ Reset \/ Chat

\* an application that selects skills and chats for three turns
MemoryNext == Initialize \/ SelectSkill \/ LongChat

\* an agent whose application also runs scripts by hand
ScriptNext ==
    Initialize \/ SelectSkill \/ DeselectSkill \/ Reset \/ Chat \/ ExecuteScript

-----------------------------------------------------------------------------
(* ScriptExecutor: the local executor                                       *)

\* the extensions of ScriptExecutor.SUPPORTED_EXTENSIONS, and two others
SUPPORTED_EXTENSIONS == {".py", ".sh", ".bash", ".js", ".ts"}
Extensions == {".py", ".sh", ".rb", ""}

\* ScriptExecutor.max_output_size, scaled down to characters of the model
MaxOutputSize == 2

\* an environment: a function from variable names to values
NoEnv == << >>
EnvOf(names, value) == [n \in names |-> value]

\* dict.update: the entries of extra over those of env
updated(env, extra) ==
    [n \in DOMAIN env \cup DOMAIN extra |->
        IF n \in DOMAIN extra THEN extra[n] ELSE env[n]]

\* dict.pop(var, None) for every var of names
popped(env, names) == [n \in DOMAIN env \ names |-> env[n]]

\* the names _prepare_environment removes
sensitive_vars ==
    {"AWS_SECRET_ACCESS_KEY", "AWS_SESSION_TOKEN", "GITHUB_TOKEN",
     "OPENAI_API_KEY", "ANTHROPIC_API_KEY", "DATABASE_URL", "DB_PASSWORD"}

\* mutant of prepare_environment: the names are removed before the extra
\* variables are added
prepare_environment_popping_first(inherited, extra_env, sandbox) ==
    IF sandbox
    THEN updated(updated(popped(inherited, sensitive_vars), extra_env),
                 EnvOf({"OPENSKILLS_SANDBOX"}, "1"))
    ELSE updated(inherited, extra_env)

\* ScriptExecutor._prepare_environment
prepare_environment(inherited, extra_env, sandbox) ==
    LET env == updated(inherited, extra_env) IN
    IF sandbox
    THEN updated(popped(env, sensitive_vars), EnvOf({"OPENSKILLS_SANDBOX"}, "1"))
    ELSE env

\* an exception of the local executor: its class and, for ScriptExecutionError,
\* the returncode and stderr it carries
ScriptExecutionError(returncode, stderr) ==
    [class |-> "ScriptExecutionError", returncode |-> returncode,
     stderr |-> stderr]
Exception(class) == [class |-> class, returncode |-> 0, stderr |-> ""]
NoException == Exception("")

\* what the child process does: it outlives the timeout, or it ends with a
\* return code (negative when a signal ended it), so many characters on stdout,
\* and a text on stderr
Behaviour(hangs, returncode, stdout, stderr) ==
    [hangs |-> hangs, returncode |-> returncode, stdout |-> stdout,
     stderr |-> stderr]
Behaviours ==
    {Behaviour(TRUE, 0, 0, ""),
     Behaviour(FALSE, 0, 1, ""),
     Behaviour(FALSE, 0, MaxOutputSize + 1, "warning"),
     Behaviour(FALSE, 1, 1, "boom"),
     Behaviour(FALSE, 0 - 1, 0, "")}

\* ScriptExecutor._run_process: the exception raised or the output returned
run_process(b, max_output_size) ==
    IF b.returncode # 0
    THEN [raised |-> ScriptExecutionError(b.returncode, b.stderr),
          output |-> 0, truncated |-> FALSE]
    ELSE IF b.stdout > max_output_size
    THEN [raised |-> NoException, output |-> max_output_size, truncated |-> TRUE]
    ELSE [raised |-> NoException, output |-> b.stdout, truncated |-> FALSE]

\* the text written to the child's stdin ("" for none)
stdin_data(input_data, kwargs) ==
    IF kwargs /\ input_data = "" THEN "json" ELSE input_data

\* the record of one call on the local executor
NoProcess(op) ==
    [op |-> op, exists |-> FALSE, ext |-> "", sandbox |-> FALSE,
     extra_env |-> NoEnv, started |-> FALSE, hangs |-> FALSE, returncode |-> 0,
     stderr |-> "", env |-> NoEnv, stdin |-> "",
     raised |-> NoException, output |-> 0, truncated |-> FALSE]

\* ScriptExecutor.execute
execute(exists, ext, sandbox, extra_env, input_data, kwargs, b) ==
    LET asked == [NoProcess("execute") EXCEPT !.exists = exists, !.ext = ext,
                      !.sandbox = sandbox, !.extra_env = extra_env]
        ran == run_process(b, MaxOutputSize)
    IN
    IF ~exists THEN [asked EXCEPT !.raised = Exception("FileNotFoundError")]
    ELSE IF ext \notin SUPPORTED_EXTENSIONS
    THEN [asked EXCEPT !.raised = Exception("ValueError")]
    ELSE LET started ==
                 [asked EXCEPT !.started = TRUE, !.hangs = b.hangs,
                     !.returncode = IF b.hangs THEN 0 ELSE b.returncode,
                     !.stderr = IF b.hangs THEN "" ELSE b.stderr,
                     !.env = prepare_environment(environ, extra_env, sandbox),
                     !.stdin = stdin_data(input_data, kwargs)]
         IN
         IF b.hangs
         THEN [started EXCEPT !.raised = ScriptExecutionError(0 - 1, "")]
         ELSE [started EXCEPT !.raised = ran.raised, !.output = ran.output,
                   !.truncated = ran.truncated]

\* the environments a process starts the executor in: bare, with credentials,
\* and already marked
Environs ==
    {EnvOf({"PATH"}, "inherited"),
     EnvOf({"PATH", "OPENAI_API_KEY", "DB_PASSWORD"}, "inherited"),
     EnvOf({"PATH", "GITHUB_TOKEN", "OPENSKILLS_SANDBOX"}, "inherited")}

\* the env arguments of a caller: none, a new name, a credential, names the
\* process has too
ExtraEnvs ==
    {NoEnv,
     EnvOf({"MODE"}, "extra"),
     EnvOf({"AWS_SESSION_TOKEN", "MODE"}, "extra"),
     EnvOf({"PATH", "OPENAI_API_KEY", "OPENSKILLS_SANDBOX"}, "extra")}

\* ScriptExecutor() in a process started with one of the environments
LocalInit ==
    /\ environ \in Environs
    /\ process = NoProcess("init")

\* the local executor is not used
LocalIdle ==
    /\ environ = EnvOf({"PATH"}, "inherited")
    /\ process = NoProcess("init")

\* ScriptExecutor.execute on a script path
Execute ==
    \E exists \in BOOLEAN, ext \in Extensions, sandbox \in BOOLEAN,
       extra_env \in ExtraEnvs, input_data \in {"", "data"}, kwargs \in BOOLEAN,
       b \in Behaviours :
        /\ process' = execute(exists, ext, sandbox, extra_env, input_data, kwargs, b)
        /\ UNCHANGED environ
        /\ UNCHANGED <<sandbox_vars, agent_vars, script_vars, match_vars,
                       client_vars, registry_vars, matcher_vars, pool_vars, sync_vars, llm_vars>>

\* ScriptExecutor._prepare_environment called by itself
PrepareEnvironment ==
    \E sandbox \in BOOLEAN, extra_env \in ExtraEnvs :
        /\ process' = [NoProcess("prepare_environment") EXCEPT
                           !.sandbox = sandbox, !.extra_env = extra_env,
                           !.env = prepare_environment(environ, extra_env, sandbox)]
        /\ UNCHANGED environ
        /\ UNCHANGED <<sandbox_vars, agent_vars, script_vars, match_vars,
                       client_vars, registry_vars, matcher_vars, pool_vars, sync_vars, llm_vars>>

LocalNext == Execute \/ PrepareEnvironment

-----------------------------------------------------------------------------
(* SkillManager: discovery, and the loading of instructions and references  *)

\* a file. A skill document has a header block: "mapping" when it is a YAML
\* mapping (of the given fields), "invalid" when it is not YAML or not a
\* mapping, "none" when the file has no header block; and a body. Any other
\* file is its text.
Document(frontmatter, fields, name, version_ok, body, references) ==
    [present |-> TRUE, frontmatter |-> frontmatter, fields |-> fields,
     name |-> name, version_ok |-> version_ok, body |-> body,
     references |-> references]
TextFile(content) == Document("none", {}, "", TRUE, content, << >>)
Absent == [TextFile("") EXCEPT !.present = FALSE]

REQUIRED_FIELDS == {"name", "description"}

\* utils.frontmatter.parse_frontmatter
parse_frontmatter(doc) ==
    IF doc.frontmatter = "invalid"
    THEN [raised |-> "ValueError", fields |-> {}, body |-> ""]
    ELSE IF doc.frontmatter = "none"
    THEN [raised |-> "", fields |-> {}, body |-> doc.body]
    ELSE [raised |-> "", fields |-> doc.fields, body |-> doc.body]

\* SkillParser._validate_frontmatter: the exception raised, "" for none
validate_frontmatter(fields) ==
    IF REQUIRED_FIELDS \ fields # {} THEN "ValueError" ELSE ""

\* a Skill object: instruction and the content of each reference are "none"
\* until loaded
Skill(name, source_path, instruction, references) ==
    [name |-> name, source_path |-> source_path, instruction |-> instruction,
     content |-> [r \in Range(references) |-> "none"]]
Parsed(raised, skill) == [raised |-> raised, skill |-> skill]
NotParsed(raised) == Parsed(raised, Skill("", "", "none", << >>))

\* SkillParser.parse_content
parse_content(doc, source_path, metadata_only) ==
    LET fm == parse_frontmatter(doc) IN
    IF fm.raised # "" THEN NotParsed(fm.raised)
    ELSE IF validate_frontmatter(fm.fields) # ""
    THEN NotParsed(validate_frontmatter(fm.fields))
    ELSE IF ~doc.version_ok THEN NotParsed("ValidationError")
    ELSE Parsed("", Skill(doc.name, source_path,
                          IF ~metadata_only /\ fm.body # "" THEN fm.body
                          ELSE "none",
                          doc.references))

exists(fs, path) == path \in DOMAIN fs /\ fs[path].present

\* SkillParser.parse_file
parse_file(fs, path, metadata_only) ==
    IF ~exists(fs, path) THEN NotParsed("FileNotFoundError")
    ELSE parse_content(fs[path], path, metadata_only)

\* the skill root: its subdirectories, and SKILL.md in each and in the root
Subdirectories == {"a", "b"}
SkillFile(dir) ==
    IF dir = "a" THEN "a/SKILL.md" ELSE IF dir = "b" THEN "b/SKILL.md"
    ELSE "SKILL.md"

\* the orders in which Path.iterdir lists the subdirectories
Orders == {<<"a", "b">>, <<"b", "a">>}

Scanned(raised, skills) == [raised |-> raised, skills |-> skills]

\* mutant of scan_from: a document that fails to parse ends the scan
RECURSIVE scan_from_fatal(_, _, _)
scan_from_fatal(fs, dirs, i) ==
    IF i > Len(dirs) THEN Scanned("", << >>)
    ELSE LET path == SkillFile(dirs[i])
             parsed == parse_file(fs, path, TRUE)
             rest == scan_from_fatal(fs, dirs, i + 1)
         IN
         IF ~exists(fs, path) THEN rest
         ELSE IF parsed.raised # "" THEN Scanned(parsed.raised, << >>)
         ELSE Scanned(rest.raised, << parsed.skill >> \o rest.skills)

\* SkillManager._scan_directory from the i-th directory on: the skills it
\* yields, and the exception that leaves it ("" for none)
RECURSIVE scan_from(_, _, _)
scan_from(fs, dirs, i) ==
    IF i > Len(dirs) THEN Scanned("", << >>)
    ELSE LET path == SkillFile(dirs[i])
             parsed == parse_file(fs, path, TRUE)
             rest == scan_from(fs, dirs, i + 1)
         IN
         IF exists(fs, path) /\ parsed.raised = ""
         THEN Scanned(rest.raised, << parsed.skill >> \o rest.skills)
         ELSE rest

\* SkillManager._scan_directory: the subdirectories, then the directory itself
scan_directory(fs, order) == scan_from(fs, order \o << "." >>, 1)

\* the registry: _skills and _metadata_index, and the exception under way
Registry(skills, index, raised) ==
    [skills |-> skills, index |-> index, raised |-> raised]

\* SkillManager._register_skill
register_skill(reg, skill) ==
    Registry([n \in DOMAIN reg.skills \cup {skill.name} |->
                 IF n = skill.name THEN skill ELSE reg.skills[n]],
             Append(reg.index,
                    [name |-> skill.name, source_path |-> skill.source_path]),
             reg.raised)

RECURSIVE register_each(_, _, _)
register_each(reg, skills, i) ==
    IF i > Len(skills) THEN reg
    ELSE register_each(register_skill(reg, skills[i]), skills, i + 1)

\* SkillManager.skill_paths: a directory that does not exist, and the root
skill_paths == << "missing", "root" >>

\* the loop of discover over skill_paths
RECURSIVE discover_from(_, _, _, _)
discover_from(fs, i, reg, order) ==
    IF i > Len(skill_paths) THEN reg
    ELSE IF skill_paths[i] # "root" THEN discover_from(fs, i + 1, reg, order)
    ELSE LET scan == scan_directory(fs, order)
             registered == register_each(reg, scan.skills, 1)
         IN
         IF scan.raised # ""
         THEN Registry(registered.skills, registered.index, scan.raised)
         ELSE discover_from(fs, i + 1, registered, order)

\* SkillManager.discover: the registry afterwards, _discovered, and whether
\* the paths were scanned
discover(fs, reg, is_discovered, force, order) ==
    IF is_discovered /\ ~force
    THEN [reg |-> reg, discovered |-> is_discovered, scanned |-> FALSE]
    ELSE LET found == discover_from(fs, 1, Registry(<< >>, << >>, ""), order) IN
         [reg |-> found,
          discovered |-> IF found.raised = "" THEN TRUE ELSE is_discovered,
          scanned |-> TRUE]

Loaded(returned, raised, skills, reads) ==
    [returned |-> returned, raised |-> raised, skills |-> skills, reads |-> reads]

\* load_instruction past its early returns: the document is parsed in full and
\* its instruction attached to the registered skill
reload_with_full_content(fs, skills, skill_name) ==
         LET parsed == parse_file(fs, skills[skill_name].source_path, FALSE) IN
         IF parsed.raised # ""
         THEN Loaded("none", parsed.raised, skills,
                     IF parsed.raised = "FileNotFoundError" THEN 0 ELSE 1)
         ELSE Loaded(parsed.skill.instruction, "",
                     [skills EXCEPT ![skill_name].instruction =
                                        parsed.skill.instruction],
                     1)

\* mutant of load_instruction: a loaded instruction is not reused
load_instruction_parsing_again(fs, skills, skill_name) ==
    IF skill_name \notin DOMAIN skills THEN Loaded("none", "", skills, 0)
    ELSE reload_with_full_content(fs, skills, skill_name)

\* SkillManager.load_instruction: what it returns ("none" = None), what it
\* raises, _skills afterwards, and the number of files it read
load_instruction(fs, skills, skill_name) ==
    IF skill_name \notin DOMAIN skills THEN Loaded("none", "", skills, 0)
    ELSE IF skills[skill_name].instruction # "none"
    THEN Loaded(skills[skill_name].instruction, "", skills, 0)
    ELSE reload_with_full_content(fs, skills, skill_name)

\* Skill.resolve_reference_path
resolve_reference_path(source_path, ref_path) ==
    IF source_path = "a/SKILL.md" /\ ref_path = "guide.md" THEN "a/guide.md"
    ELSE IF source_path = "b/SKILL.md" /\ ref_path = "guide.md" THEN "b/guide.md"
    ELSE "guide.md"

\* SkillManager.load_reference on the registry
load_reference_file(fs, skills, skill_name, ref_path) ==
    IF skill_name \notin DOMAIN skills THEN Loaded("none", "", skills, 0)
    ELSE IF ref_path \notin DOMAIN skills[skill_name].content
    THEN Loaded("none", "", skills, 0)
    ELSE IF skills[skill_name].content[ref_path] # "none"
    THEN Loaded(skills[skill_name].content[ref_path], "", skills, 0)
    ELSE LET resolved_path ==
                 resolve_reference_path(skills[skill_name].source_path, ref_path)
         IN
         IF exists(fs, resolved_path)
         THEN Loaded(fs[resolved_path].body, "",
                     [skills EXCEPT ![skill_name].content[ref_path] =
                                        fs[resolved_path].body],
                     1)
         ELSE Loaded("none", "", skills, 0)

\* skill documents: well-formed ones (alpha declares a reference, gamma has no
\* body, a second document named alpha), and malformed ones
GoodAlpha ==
    Document("mapping", REQUIRED_FIELDS, "alpha", TRUE, "v1", << "guide.md" >>)
GoodBeta == Document("mapping", REQUIRED_FIELDS, "beta", TRUE, "v1", << >>)
AlphaAgain == Document("mapping", REQUIRED_FIELDS, "alpha", TRUE, "other", << >>)
NoBody == Document("mapping", REQUIRED_FIELDS, "gamma", TRUE, "", << >>)
MissingDescription == Document("mapping", {"name"}, "broken", TRUE, "v1", << >>)
InvalidYaml == Document("invalid", {}, "", TRUE, "v1", << >>)
NoHeader == Document("none", {}, "", TRUE, "v1", << >>)
BadVersion == Document("mapping", REQUIRED_FIELDS, "old", FALSE, "v1", << >>)

\* the files under the root: SKILL.md of the two subdirectories, of the root
\* and of a directory below a subdirectory, and alpha's reference
Tree(a, b, direct, deep, guide) ==
    [p \in {"a/SKILL.md", "b/SKILL.md", "SKILL.md", "a/deep/SKILL.md",
            "a/guide.md"} |->
        IF p = "a/SKILL.md" THEN a
        ELSE IF p = "b/SKILL.md" THEN b
        ELSE IF p = "SKILL.md" THEN direct
        ELSE IF p = "a/deep/SKILL.md" THEN deep
        ELSE guide]
NoFiles == Tree(Absent, Absent, Absent, Absent, Absent)
Trees ==
    {Tree(GoodAlpha, MissingDescription, Absent, Absent, TextFile("r1")),
     Tree(GoodAlpha, GoodBeta, NoBody, Absent, Absent),
     Tree(AlphaAgain, GoodAlpha, Absent, GoodBeta, TextFile("")),
     Tree(InvalidYaml, BadVersion, NoHeader, Absent, Absent)}

\* the record of one call on the registry
NoRegistryCall(op) ==
    [op |-> op, skill_name |-> "", ref_path |-> "", force |-> FALSE,
     scanned |-> FALSE, raised |-> "", returned |-> "none", reads |-> 0]

\* SkillManager.__init__ over one of the trees
RegistryInit ==
    /\ files \in Trees
    /\ _skills = << >>
    /\ _metadata_index = << >>
    /\ registry_call = NoRegistryCall("init")

\* the registry is not used
RegistryIdle ==
    /\ files = NoFiles
    /\ _skills = << >>
    /\ _metadata_index = << >>
    /\ registry_call = NoRegistryCall("init")

\* SkillManager.discover
DiscoverSkills ==
    \E force \in BOOLEAN, order \in Orders :
        LET d == discover(files, Registry(_skills, _metadata_index, ""),
                          discovered, force, order)
        IN
        /\ _skills' = d.reg.skills
        /\ _metadata_index' = d.reg.index
        /\ discovered' = d.discovered
        /\ registry_call' = [NoRegistryCall("discover") EXCEPT
                                 !.force = force, !.scanned = d.scanned,
                                 !.raised = d.reg.raised]
        /\ UNCHANGED files
        /\ UNCHANGED <<auto_execute_scripts, use_sandbox, llm_texts, dispatched>>
        /\ UNCHANGED <<sandbox_vars, agent_vars, match_vars, client_vars,
                       local_vars, matcher_vars, pool_vars, sync_vars, llm_vars>>

\* the names and paths an application asks for
AskedNames == {"alpha", "beta", "gamma", "broken"}
AskedPaths == {"guide.md", "other.md"}

\* SkillManager.load_instruction
LoadInstruction ==
    \E skill_name \in AskedNames :
        LET l == load_instruction(files, _skills, skill_name) IN
        /\ _skills' = l.skills
        /\ registry_call' = [NoRegistryCall("load_instruction") EXCEPT
                                 !.skill_name = skill_name, !.raised = l.raised,
                                 !.returned = l.returned, !.reads = l.reads]
        /\ UNCHANGED <<files, _metadata_index>>
        /\ UNCHANGED <<sandbox_vars, agent_vars, script_vars, match_vars,
                       client_vars, local_vars, matcher_vars, pool_vars, sync_vars, llm_vars>>

\* SkillManager.load_reference
LoadReference ==
    \E skill_name \in AskedNames, ref_path \in AskedPaths :
        LET l == load_reference_file(files, _skills, skill_name, ref_path) IN
        /\ _skills' = l.skills
        /\ registry_call' = [NoRegistryCall("load_reference") EXCEPT
                                 !.skill_name = skill_name, !.ref_path = ref_path,
                                 !.raised = l.raised, !.returned = l.returned,
                                 !.reads = l.reads]
        /\ UNCHANGED <<files, _metadata_index>>
        /\ UNCHANGED <<sandbox_vars, agent_vars, script_vars, match_vars,
                       client_vars, local_vars, matcher_vars, pool_vars, sync_vars, llm_vars>>

\* the author of the skill in subdirectory a rewrites its body or its
\* reference, or deletes one of the two
EditFiles ==
    \E path \in {"a/SKILL.md", "a/guide.md"}, delete \in BOOLEAN :
        /\ files[path].present \/ path = "a/guide.md"
        /\ files' = [files EXCEPT ![path] =
                         IF delete THEN Absent
                         ELSE IF path = "a/guide.md" THEN TextFile("r2")
                         ELSE [files[path] EXCEPT !.body = "v2"]]
        /\ registry_call' = NoRegistryCall("edit")
        /\ UNCHANGED <<_skills, _metadata_index>>
        /\ UNCHANGED <<sandbox_vars, agent_vars, script_vars, match_vars,
                       client_vars, local_vars, matcher_vars, pool_vars, sync_vars, llm_vars>>

RegistryNext == DiscoverSkills \/ LoadInstruction \/ LoadReference \/ EditFiles

-----------------------------------------------------------------------------
(* SkillMatcher.match over several candidates                               *)

\* candidates that a query of the words make and chart matches by an exact
\* trigger, by a trigger within it, by the words of a trigger, and by keywords
\* of a short and of a long description
Candidate(name, description, triggers) ==
    [name |-> name, name_words |-> << name >>, description |-> description,
     triggers |-> triggers, tags |-> << >>]
Exact == Candidate("exact", << "none" >>, << << "make", "chart" >> >>)
Within == Candidate("within", << "none" >>, << << "make" >> >>)
Reordered == Candidate("reordered", << "none" >>, << << "chart", "make" >> >>)
Described == Candidate("described", << "make", "the", "data" >>, << >>)
Listed ==
    Candidate("listed", << "make", "data", "draw", "write", "plot", "hello" >>,
              << >>)

\* metadata lists in three orders, and a short one
CandidateLists ==
    {<< Exact, Within, Reordered, Described, Listed >>,
     << Listed, Described, Reordered, Within, Exact >>,
     << Described, Exact, Listed, Within, Reordered >>,
     << Described, Reordered >>}

\* the limits a caller passes: 0 up to MaxLimit
MaxLimit == 3

MinScores == {0, DEFAULT_MIN_SCORE, 750, EXACT_TRIGGER_SCORE}

NoRanking ==
    [op |-> "init", query |-> NoQuery, metadata_list |-> << >>, limit |-> 0,
     results |-> << >>]

\* SkillMatcher(min_score)
MatcherInit ==
    /\ matcher_min_score \in MinScores
    /\ ranking = NoRanking

\* the matcher is not used
MatcherIdle ==
    /\ matcher_min_score = DEFAULT_MIN_SCORE
    /\ ranking = NoRanking

\* SkillMatcher.match
Match ==
    \E query \in Queries, metadata_list \in CandidateLists, limit \in 0..MaxLimit :
        /\ ranking' = [op |-> "match", query |-> query,
                       metadata_list |-> metadata_list, limit |-> limit,
                       results |-> match(query, metadata_list,
                                         matcher_min_score, limit)]
        /\ UNCHANGED matcher_min_score
        /\ UNCHANGED <<sandbox_vars, agent_vars, script_vars, match_vars,
                       client_vars, local_vars, registry_vars, pool_vars, sync_vars, llm_vars>>

-----------------------------------------------------------------------------
(* SandboxManager.get_executor and cleanup called by several asyncio tasks; *)
(* a step runs a task from one await to the next.                           *)

\* the two tasks that call get_executor on the one manager
Callers == {1, 2}

\* the task that leaves the manager's scope and runs cleanup
CleanupTask == 0

\* SandboxExecutor objects the tasks create in one run of the model
MaxPooled == 2

\* the skill names the callers ask for
RequestedNames == {"alpha", "beta"}

\* the dependencies the callers pass: only the persistent strategy consults
\* them outside _create_executor
RequestedDependencies ==
    IF strategy = PERSISTENT THEN Dependencies ELSE {"none"}

\* a caller's position and locals: `value` is the local `executor`, then what
\* the call returned; `created` and `overlaps` are history (the call created
\* an executor; the callers whose call for the same skill was under way when
\* this call was made)
Task(pc, skill_name, dependency, oldest_executor, value, raised, has_created, overlaps) ==
    [pc |-> pc, skill_name |-> skill_name, dependency |-> dependency,
     oldest_executor |-> oldest_executor, value |-> value, raised |-> raised,
     created |-> has_created, overlaps |-> overlaps]

IdleTask == Task("idle", "", "none", NoExecutor, NoExecutor, "", FALSE, {})

\* positions inside get_executor, and those inside `async with self._lock`
InFlight == {"waiting", "creating", "installing", "evicting"}
UnderLock == {"creating", "installing", "evicting"}

\* mutant of acquired: the body of get_executor is entered without the lock
acquired_unguarded(locked, waiters) == TRUE

\* asyncio.Lock.acquire returns at once: the lock is free and nobody queues
acquired(locked, waiters) == ~locked /\ waiters = <<>>

\* self._cache[skill_name] = executor
cache_setitem(c, skill_name, executor) ==
    IF skill_name \in CacheKeys(c)
    THEN [c EXCEPT ![CacheIndex(c, skill_name)].executor = executor]
    ELSE Append(c, [name |-> skill_name, executor |-> executor])

\* what a step of a task leaves: the pool, the lock and the task
Step(c, p, d, x, locked, task) ==
    [cache |-> c, persistent_executor |-> p, installed_deps |-> d,
     executors |-> x, locked |-> locked, task |-> task]

Returns(task, value) == [task EXCEPT !.pc = "returned", !.value = value]
Raises(task, class) == [task EXCEPT !.pc = "raised", !.raised = class]
Awaits(task, pc) == [task EXCEPT !.pc = pc]

\* get_executor from `async with self._lock` to its first await or its return
lookup(task) ==
    IF strategy = PER_EXECUTION
    THEN Step(cache, persistent_executor, installed_deps, executors, TRUE,
              Awaits(task, "creating"))
    ELSE IF strategy = PERSISTENT
    THEN IF persistent_executor = NoExecutor
         THEN Step(cache, persistent_executor, installed_deps, executors, TRUE,
                   Awaits(task, "creating"))
         ELSE IF /\ has_dependencies(task.dependency)
                 /\ task.skill_name \notin installed_deps
         THEN Step(cache, persistent_executor, installed_deps, executors, TRUE,
                   Awaits(task, "installing"))
         ELSE Step(cache, persistent_executor, installed_deps, executors, FALSE,
                   Returns(task, persistent_executor))
    ELSE IF task.skill_name \in CacheKeys(cache)
    THEN Step(move_to_end(cache, task.skill_name), persistent_executor,
              installed_deps, executors, FALSE,
              Returns(task, CacheGet(cache, task.skill_name)))
    ELSE Step(cache, persistent_executor, installed_deps, executors, TRUE,
              Awaits(task, "creating"))

\* the eviction loop of get_executor from its test to its next await or to the
\* return of the local `executor`
evict(c, x, task) ==
    IF Len(c) > cache_size
    THEN Step(Tail(c), persistent_executor, installed_deps, x, TRUE,
              [task EXCEPT !.pc = "evicting",
                           !.oldest_executor = Head(c).executor])
    ELSE Step(c, persistent_executor, installed_deps, x, FALSE,
              Returns([task EXCEPT !.oldest_executor = NoExecutor], task.value))

\* get_executor from the end of `await self._create_executor(dependency)`
created(task, outcome) ==
    LET cr == create_executor(executors, task.skill_name, task.dependency, outcome)
        made == [task EXCEPT !.value = cr.value, !.created = TRUE]
    IN
    IF cr.raised # ""
    THEN Step(cache, persistent_executor, installed_deps, cr.executors, FALSE,
              Raises(task, cr.raised))
    ELSE IF strategy = PER_EXECUTION
    THEN Step(cache, persistent_executor, installed_deps, cr.executors, FALSE,
              Returns(made, cr.value))
    ELSE IF strategy = PERSISTENT
    THEN Step(cache, cr.value,
              IF has_dependencies(task.dependency)
              THEN installed_deps \cup {task.skill_name} ELSE installed_deps,
              cr.executors, FALSE, Returns(made, cr.value))
    ELSE evict(cache_setitem(cache, task.skill_name, cr.value), cr.executors, made)

\* get_executor from the end of `await self._persistent_executor.setup_environment`
installed(task, outcome) ==
    IF outcome = "raises"
    THEN Step(cache, persistent_executor, installed_deps, executors, FALSE,
              Raises(task, "SandboxError"))
    ELSE Step(cache, persistent_executor, installed_deps \cup {task.skill_name},
              [executors EXCEPT ![persistent_executor] =
                   setup_environment(@, task.skill_name)],
              FALSE, Returns(task, persistent_executor))

\* get_executor from the end of `await self._cleanup_executor(oldest_executor)`
torn_down(task) ==
    evict(cache, cleanup_executor(executors, task.oldest_executor), task)

\* the step of caller t leaves s
Leaves(t, s) ==
    /\ cache' = s.cache
    /\ persistent_executor' = s.persistent_executor
    /\ installed_deps' = s.installed_deps
    /\ executors' = s.executors
    /\ _lock' = s.locked
    /\ tasks' = [tasks EXCEPT ![t] = s.task]
    /\ UNCHANGED <<strategy, cache_size, active, use_order, last_call, closing>>
    /\ UNCHANGED <<agent_vars, script_vars, match_vars, client_vars,
                   local_vars, registry_vars, matcher_vars, sync_vars, llm_vars>>

\* the callers whose call for skill_name is under way
UnderWay(skill_name) ==
    {u \in Callers : tasks[u].pc \in InFlight /\ tasks[u].skill_name = skill_name}

\* a caller calls get_executor(skill_name, dependency)
Request ==
    \E t \in Callers, skill_name \in RequestedNames,
       dependency \in RequestedDependencies :
        LET task == Task("idle", skill_name, dependency, NoExecutor, NoExecutor,
                         "", FALSE, UnderWay(skill_name))
        IN
        /\ tasks[t].pc = "idle"
        /\ Len(executors) + Cardinality({u \in Callers : tasks[u].pc \in InFlight})
               < MaxPooled
        /\ IF ~active
           THEN /\ Leaves(t, Step(cache, persistent_executor, installed_deps,
                                  executors, _lock, Raises(task, "RuntimeError")))
                /\ UNCHANGED _waiters
           ELSE IF acquired(_lock, _waiters)
           THEN /\ Leaves(t, lookup(task))
                /\ UNCHANGED _waiters
           ELSE /\ Leaves(t, Step(cache, persistent_executor, installed_deps,
                                  executors, _lock, Awaits(task, "waiting")))
                /\ _waiters' = Append(_waiters, t)

\* the lock was released: its first waiter, a caller, takes it and goes on
Resume ==
    \E t \in Callers :
        /\ ~_lock
        /\ _waiters # <<>>
        /\ Head(_waiters) = t
        /\ tasks[t].pc = "waiting"
        /\ Leaves(t, lookup(tasks[t]))
        /\ _waiters' = Tail(_waiters)

\* _create_executor ends, with an executor or an exception
Created ==
    \E t \in Callers, outcome \in Outcomes :
        /\ tasks[t].pc = "creating"
        /\ Leaves(t, created(tasks[t], outcome))
        /\ UNCHANGED _waiters

\* setup_environment on the persistent executor ends
Installed ==
    \E t \in Callers, outcome \in Outcomes :
        /\ tasks[t].pc = "installing"
        /\ Leaves(t, installed(tasks[t], outcome))
        /\ UNCHANGED _waiters

\* the teardown of an evicted executor ends
TornDown ==
    \E t \in Callers :
        /\ tasks[t].pc = "evicting"
        /\ Leaves(t, torn_down(tasks[t]))
        /\ UNCHANGED _waiters

\* a caller is done with what get_executor returned or raised
Done ==
    \E t \in Callers :
        /\ tasks[t].pc \in {"returned", "raised"}
        /\ tasks' = [u \in Callers |->
                        IF u = t THEN IdleTask
                        ELSE [tasks[u] EXCEPT !.overlaps = @ \ {t}]]
        /\ UNCHANGED <<_lock, _waiters, closing>>
        /\ UNCHANGED <<sandbox_vars, agent_vars, script_vars, match_vars,
                       client_vars, local_vars, registry_vars, matcher_vars, sync_vars, llm_vars>>

\* SandboxManager.__aenter__
ScopeEnter ==
    /\ ~active
    /\ closing = "no"
    /\ active' = TRUE
    /\ UNCHANGED <<strategy, cache_size, cache, persistent_executor,
                   installed_deps, executors, use_order, last_call>>
    /\ UNCHANGED pool_vars
    /\ UNCHANGED <<agent_vars, script_vars, match_vars, client_vars,
                   local_vars, registry_vars, matcher_vars, sync_vars, llm_vars>>

\* SandboxManager.__aexit__, to the `async with self._lock` of cleanup
ScopeExit ==
    /\ active
    /\ closing = "no"
    /\ IF acquired(_lock, _waiters)
       THEN closing' = "cleaning" /\ _lock' = TRUE /\ UNCHANGED _waiters
       ELSE closing' = "waiting" /\ _waiters' = Append(_waiters, CleanupTask)
                                 /\ UNCHANGED _lock
    /\ UNCHANGED tasks
    /\ UNCHANGED <<sandbox_vars, agent_vars, script_vars, match_vars,
                   client_vars, local_vars, registry_vars, matcher_vars, sync_vars, llm_vars>>

\* the lock was released: cleanup, its first waiter, takes it
CleanupResume ==
    /\ ~_lock
    /\ _waiters # <<>>
    /\ Head(_waiters) = CleanupTask
    /\ closing = "waiting"
    /\ closing' = "cleaning"
    /\ _lock' = TRUE
    /\ _waiters' = Tail(_waiters)
    /\ UNCHANGED tasks
    /\ UNCHANGED <<sandbox_vars, agent_vars, script_vars, match_vars,
                   client_vars, local_vars, registry_vars, matcher_vars, sync_vars, llm_vars>>

\* cleanup tears every pooled executor down, empties the pool and releases the
\* lock; __aexit__ then clears _active
CleanupEnds ==
    /\ closing = "cleaning"
    /\ cache' = cleanup.cache
    /\ persistent_executor' = cleanup.persistent_executor
    /\ installed_deps' = cleanup.installed_deps
    /\ executors' = cleanup.executors
    /\ active' = FALSE
    /\ _lock' = FALSE
    /\ closing' = "no"
    /\ UNCHANGED <<strategy, cache_size, use_order, last_call, _waiters, tasks>>
    /\ UNCHANGED <<agent_vars, script_vars, match_vars, client_vars,
                   local_vars, registry_vars, matcher_vars, sync_vars, llm_vars>>

PoolInit ==
    /\ _lock = FALSE
    /\ _waiters = <<>>
    /\ tasks = [t \in Callers |-> IdleTask]
    /\ closing = "no"

\* no task calls the manager
PoolIdle == PoolInit

PoolNext ==
    \/ ScopeEnter
    \/ Request
    \/ Resume
    \/ Created
    \/ Installed
    \/ TornDown
    \/ Done
    \/ ScopeExit
    \/ CleanupResume
    \/ CleanupEnds

-----------------------------------------------------------------------------
(* SkillManager: the file transfers around a sandbox execution.             *)
(* A path is the sequence of its components.                                *)

FileInfo(name, path, is_dir) == [name |-> name, path |-> path, is_dir |-> is_dir]

\* the files of the sandbox: what client.list_files(path) answers
Listing(path) ==
    IF path = <<"out">>
    THEN <<FileInfo("a.txt", <<"out", "a.txt">>, FALSE),
           FileInfo("sub", <<"out", "sub">>, TRUE),
           FileInfo("b.txt", <<"out", "b.txt">>, FALSE)>>
    ELSE IF path = <<"out", "sub">>
    THEN <<FileInfo("c.txt", <<"out", "sub", "c.txt">>, FALSE)>>
    ELSE IF path = <<"logs">>
    THEN <<FileInfo("l.txt", <<"logs", "l.txt">>, FALSE)>>
    ELSE << >>

\* the requests to the sandbox that can fail: listings and downloads
SandboxPaths ==
    {<<"out">>, <<"out", "sub">>, <<"logs">>, <<"missing">>,
     <<"out", "a.txt">>, <<"out", "b.txt">>, <<"out", "sub", "c.txt">>,
     <<"logs", "l.txt">>}

\* Script.outputs of the script that ran
Outputs ==
    {<<<<"out">>>>, <<<<"out">>, <<"logs">>>>, <<<<"logs">>, <<"out">>>>,
     <<<<"missing">>, <<"out", "sub">>>>}

\* skill.source_path.parent / "output"
OutputDir == <<"output">>

\* what stands in the way of one call: the sandbox requests that fail, the
\* local files that cannot be written, the local directories that cannot be
\* made, and whether the executor still has its client
Conditions(failing, unwritable, no_dirs, client) ==
    [failing |-> failing, unwritable |-> unwritable, no_dirs |-> no_dirs,
     client |-> client]

\* what a download call has done: the exception leaving it, downloaded_count,
\* the local files written and the sandbox requests made, both in order
Sync(raised, count, written, attempted) ==
    [raised |-> raised, count |-> count, written |-> written,
     attempted |-> attempted]

\* a after b unless a ended in an exception
Then(a, b) ==
    IF a.raised # "" THEN a
    ELSE Sync(b.raised, a.count + b.count, a.written \o b.written,
              a.attempted \o b.attempted)

\* path starts with the components of prefix
StartsWith(path, prefix) ==
    Len(prefix) <= Len(path) /\ SubSeq(path, 1, Len(prefix)) = prefix

\* file_info.path.replace(sandbox_path, "").lstrip("/")
RECURSIVE rel_path(_, _)
rel_path(path, sandbox_path) ==
    IF path = << >> \/ sandbox_path = << >> THEN path
    ELSE IF StartsWith(path, sandbox_path)
    THEN rel_path(SubSeq(path, Len(sandbox_path) + 1, Len(path)), sandbox_path)
    ELSE <<Head(path)>> \o rel_path(Tail(path), sandbox_path)

\* local_output_dir / rel_path if rel_path else local_output_dir / file_info.name
local_path_of(file_info, sandbox_path, local_output_dir) ==
    LET rel == rel_path(file_info.path, sandbox_path) IN
    IF rel # << >> THEN local_output_dir \o rel
    ELSE local_output_dir \o <<file_info.name>>

\* mutant of download_one: a failing download is not caught
download_one_unguarded(env, file_info, sandbox_path, local_output_dir) ==
    LET local_path == local_path_of(file_info, sandbox_path, local_output_dir) IN
    IF file_info.path \in env.failing \/ local_path \in env.unwritable
    THEN Sync("Exception", 0, << >>, <<file_info.path>>)
    ELSE Sync("", 1, <<local_path>>, <<file_info.path>>)

\* the inner try of _download_sandbox_files: download a file and write it
download_one(env, file_info, sandbox_path, local_output_dir) ==
    LET local_path == local_path_of(file_info, sandbox_path, local_output_dir) IN
    IF file_info.path \in env.failing \/ local_path \in env.unwritable
    THEN Sync("", 0, << >>, <<file_info.path>>)
    ELSE Sync("", 1, <<local_path>>, <<file_info.path>>)

RECURSIVE download_sandbox_files(_, _, _)
RECURSIVE download_listed(_, _, _, _, _)
RECURSIVE download_each(_, _, _, _)

\* `for file_info in files`, from the k-th entry
download_listed(env, listed, k, sandbox_path, local_output_dir) ==
    IF k > Len(listed) THEN Sync("", 0, << >>, << >>)
    ELSE Then(IF listed[k].is_dir
              THEN download_sandbox_files(env, <<listed[k].path>>,
                                          local_output_dir \o <<listed[k].name>>)
              ELSE download_one(env, listed[k], sandbox_path, local_output_dir),
              download_listed(env, listed, k + 1, sandbox_path, local_output_dir))

\* `for sandbox_path in sandbox_paths`, from the i-th path: the outer try
\* keeps what was counted and goes on with the next path
download_each(env, sandbox_paths, i, local_output_dir) ==
    IF i > Len(sandbox_paths) THEN Sync("", 0, << >>, << >>)
    ELSE LET sandbox_path == sandbox_paths[i]
             listed == IF sandbox_path \in env.failing
                       THEN Sync("", 0, << >>, << >>)
                       ELSE download_listed(env, Listing(sandbox_path), 1,
                                            sandbox_path, local_output_dir)
         IN Then(Sync("", listed.count, listed.written,
                      <<sandbox_path>> \o listed.attempted),
                 download_each(env, sandbox_paths, i + 1, local_output_dir))

\* SkillManager._download_sandbox_files
download_sandbox_files(env, sandbox_paths, local_output_dir) ==
    IF ~env.client THEN Sync("RuntimeError", 0, << >>, << >>)
    ELSE IF local_output_dir \in env.no_dirs THEN Sync("OSError", 0, << >>, << >>)
    ELSE download_each(env, sandbox_paths, 1, local_output_dir)

\* the sets of at most two failing requests
Failures == {f \in SUBSET SandboxPaths : Cardinality(f) <= 2}

NoTransfer ==
    [op |-> "none", sandbox_paths |-> << >>,
     env |-> Conditions({}, {}, {}, TRUE),
     returned |-> 0, raised |-> "", written |-> << >>, attempted |-> << >>]

SyncInit == transfer = NoTransfer

\* no file is transferred
SyncIdle == SyncInit

\* the output sync of _execute_in_sandbox after a script with outputs ran
Download ==
    \E sandbox_paths \in Outputs, failing \in Failures,
       unwritable \in {{}, {<<"output", "a.txt">>}},
       no_dirs \in {{}, {<<"output", "sub">>}, {<<"output">>}},
       client \in BOOLEAN :
        LET env == Conditions(failing, unwritable, no_dirs, client)
            r == download_sandbox_files(env, sandbox_paths, OutputDir)
        IN
        /\ (~client \/ no_dirs # {}) => (failing = {} /\ unwritable = {})
        /\ transfer' = [op |-> "download", sandbox_paths |-> sandbox_paths,
                        env |-> env, returned |-> r.count, raised |-> r.raised,
                        written |-> r.written, attempted |-> r.attempted]
        /\ UNCHANGED <<sandbox_vars, agent_vars, script_vars, match_vars,
                       client_vars, local_vars, registry_vars, matcher_vars,
                       pool_vars, llm_vars>>

\* ---- the upload of local input files ----

\* JSON values
Str(s) == [type |-> "str", s |-> s]
Num(n) == [type |-> "num", n |-> n]
Dict(items) == [type |-> "dict", items |-> items]
List(items) == [type |-> "list", items |-> items]
Member(key, value) == [key |-> key, value |-> value]

\* kwargs["input_data"]: a string that is a JSON document, written with the
\* separators of json.dumps or without spaces, or a string that is none
JsonText(data, separators) ==
    [kind |-> "json", text |-> "", data |-> data, separators |-> separators]
PlainString(text) ==
    [kind |-> "text", text |-> text, data |-> Num(0), separators |-> "none"]

\* json.dumps(updated_data, ensure_ascii=False)
dumps(data) == JsonText(data, "default")

\* the files of the local file system: os.path.isfile(value)
LocalFiles == {"/data/in.csv", "/data/b.bin"}
is_local_file(value) == value \in LocalFiles

\* f"{sandbox_uploads}/{local_file.name}"
sandbox_path_of(local_path) ==
    IF local_path = "/data/in.csv" THEN "/home/gem/uploads/in.csv"
    ELSE IF local_path = "/data/b.bin" THEN "/home/gem/uploads/b.bin"
    ELSE "/home/gem/uploads/"

\* what the processing of a value leaves: the exception, the new value and
\* the local files uploaded, in order
Processed(raised, value, uploaded) ==
    [raised |-> raised, value |-> value, uploaded |-> uploaded]

\* SkillManager._upload_single_file for a string value
upload_value(upload_fails, value) ==
    IF upload_fails THEN Processed("SandboxExecutionError", value, << >>)
    ELSE Processed("", Str(sandbox_path_of(value.s)), <<value.s>>)

IsFileValue(value) == value.type = "str" /\ is_local_file(value.s)

\* the list comprehension of _process_file_paths, from the k-th element
RECURSIVE process_list(_, _, _)
process_list(upload_fails, elements, k) ==
    IF k > Len(elements) THEN Processed("", << >>, << >>)
    ELSE LET first == IF IsFileValue(elements[k])
                      THEN upload_value(upload_fails, elements[k])
                      ELSE Processed("", elements[k], << >>)
         IN IF first.raised # "" THEN first
            ELSE LET rest == process_list(upload_fails, elements, k + 1) IN
                 IF rest.raised # ""
                 THEN Processed(rest.raised, elements, first.uploaded)
                 ELSE Processed("", <<first.value>> \o rest.value,
                                first.uploaded \o rest.uploaded)

\* mutant of process_file_paths: string values are left as they are
process_file_paths_idle(upload_fails, data) == Processed("", data, << >>)

RECURSIVE process_members(_, _, _)

\* SkillManager._process_file_paths
process_file_paths(upload_fails, data) ==
    LET r == process_members(upload_fails, data.items, 1) IN
    IF r.raised # "" THEN Processed(r.raised, data, r.uploaded)
    ELSE Processed("", Dict(r.value), r.uploaded)

\* `for key, value in data.items()`, from the k-th member
process_members(upload_fails, members, k) ==
    IF k > Len(members) THEN Processed("", << >>, << >>)
    ELSE LET value == members[k].value
             first == IF IsFileValue(value) THEN upload_value(upload_fails, value)
                      ELSE IF value.type = "dict"
                      THEN process_file_paths(upload_fails, value)
                      ELSE IF value.type = "list"
                      THEN LET l == process_list(upload_fails, value.items, 1) IN
                           IF l.raised # "" THEN l
                           ELSE Processed("", List(l.value), l.uploaded)
                      ELSE Processed("", value, << >>)
         IN IF first.raised # "" THEN first
            ELSE LET rest == process_members(upload_fails, members, k + 1) IN
                 IF rest.raised # ""
                 THEN Processed(rest.raised, members, first.uploaded)
                 ELSE Processed("",
                                <<Member(members[k].key, first.value)>> \o rest.value,
                                first.uploaded \o rest.uploaded)

\* SkillManager._upload_local_files: `value` is the updated input_data
upload_local_files(upload_fails, input_data) ==
    IF input_data = PlainString("") THEN Processed("", input_data, << >>)
    ELSE IF input_data.kind = "json"
    THEN IF input_data.data.type = "dict"
         THEN LET r == process_file_paths(upload_fails, input_data.data) IN
              IF r.raised # "" THEN Processed(r.raised, input_data, r.uploaded)
              ELSE Processed("", dumps(r.value), r.uploaded)
         ELSE Processed("", input_data, << >>)
    ELSE IF is_local_file(input_data.text)
    THEN IF upload_fails
         THEN Processed("SandboxExecutionError", input_data, << >>)
         ELSE Processed("", PlainString(sandbox_path_of(input_data.text)),
                        <<input_data.text>>)
    ELSE Processed("", input_data, << >>)

\* the values a payload holds, and the places it holds them in
LeafValues ==
    {Str("/data/in.csv"), Str("/data/b.bin"), Str("hello"), Str("/nope.csv"),
     Num(3)}
Places == {"member", "dict", "deep", "list", "dict in list", "list in list"}

Placed(place, value) ==
    IF place = "member" THEN value
    ELSE IF place = "dict" THEN Dict(<<Member("src", value)>>)
    ELSE IF place = "deep"
    THEN Dict(<<Member("a", Dict(<<Member("mode", Str("fast")),
                                   Member("b", value)>>))>>)
    ELSE IF place = "list" THEN List(<<Str("hello"), value>>)
    ELSE IF place = "dict in list" THEN List(<<Dict(<<Member("path", value)>>)>>)
    ELSE List(<<List(<<value>>)>>)

\* the payloads: a JSON object of one or two members, a JSON array, strings
InputPayloads ==
    {JsonText(Dict(<<Member("input", Placed(place, value))>>), separators) :
         place \in Places, value \in LeafValues,
         separators \in {"default", "compact"}}
    \cup {JsonText(Dict(<<Member("input", Placed(place, value)),
                          Member("other", Str("/data/b.bin"))>>), "default") :
              place \in Places, value \in LeafValues}
    \cup {JsonText(List(<<Str("/data/in.csv")>>), "default"),
          PlainString("/data/in.csv"), PlainString("hello"), PlainString("")}

\* _execute_in_sandbox uploads the local files of the payload
Upload ==
    \E input_data \in InputPayloads, upload_fails \in BOOLEAN :
        LET r == upload_local_files(upload_fails, input_data) IN
        /\ transfer' = [op |-> "upload", input_data |-> input_data,
                        upload_fails |-> upload_fails, raised |-> r.raised,
                        returned |-> r.value, uploaded |-> r.uploaded]
        /\ UNCHANGED <<sandbox_vars, agent_vars, script_vars, match_vars,
                       client_vars, local_vars, registry_vars, matcher_vars,
                       pool_vars, llm_vars>>

-----------------------------------------------------------------------------
(* SkillAgent.chat_stream: the turn as an asynchronous generator            *)

\* the generator chat_stream returns: where it stands, the chunks the LLM stream
\* has still to deliver, what was yielded, and the locals full_response and
\* references_loaded
NoStream ==
    [pc |-> "none", response |-> << >>, pending |-> << >>, yielded |-> << >>,
     full_response |-> << >>, references_loaded |-> << >>]

\* the generator is suspended at its yield
Suspended == stream.pc = "suspended"

\* mutant of scripts_after_stream: the tail of chat_stream handles the
\* invocations of the response as the tail of chat does
scripts_after_stream_as_chat(auto_execute, skill, full_response) ==
    IF should_handle(auto_execute, skill)
    THEN handle_script_invocations(skill, full_response,
             [i \in DOMAIN extract_script_invocations(full_response) |-> "ok"])
    ELSE NothingHandled

\* what the statements of chat_stream after the stream loop make the executors
\* do: they append the assistant message and generate the summaries, and hand
\* nothing to _handle_script_invocations
scripts_after_stream(auto_execute, skill, full_response) == NothingHandled

\* one step of `async for chunk in llm_client.chat_stream(...)`: the stream
\* raises, or delivers its next chunk, which is added to full_response and
\* yielded, or ends, and then the statements after the loop run
pulled(st, ctx, rc, fails) ==
    IF fails
    THEN /\ stream' = [st EXCEPT !.pc = "raised"]
         /\ SetContext(ctx)
         /\ dispatched' = << >>
         /\ turn' = [NoTurn("chat_stream") EXCEPT !.raised = "LLMError"]
    ELSE IF st.pending # << >>
    THEN /\ stream' = [st EXCEPT !.pc = "suspended",
                           !.pending = Tail(@),
                           !.yielded = Append(@, Head(st.pending)),
                           !.full_response = Append(@, Head(st.pending))]
         /\ SetContext(ctx)
         /\ dispatched' = << >>
         /\ turn' = NoTurn("chat_stream")
    ELSE LET skill == ctx.active_skill
             summarizing == st.references_loaded # << >> /\ skill # NoSkill
             asked == IF summarizing
                      THEN to_summarize(skill, st.references_loaded, rc,
                                        ctx.reference_summaries)
                      ELSE {}
         IN
         \E raises \in SUBSET asked :
             /\ stream' = [st EXCEPT !.pc = "finished"]
             /\ SetContext(
                    [ctx EXCEPT
                        !.messages = Append(@, "assistant"),
                        !.reference_summaries =
                            IF summarizing
                            THEN summarize_each(skill, st.references_loaded, rc,
                                                raises, @)
                            ELSE @])
             /\ dispatched' =
                    scripts_after_stream(auto_execute_scripts, skill,
                                         st.full_response).events
             /\ turn' = [NoTurn("chat_stream") EXCEPT
                            !.returned = TRUE,
                            !.summary_raised = raises,
                            !.skill_used = skill,
                            !.references_loaded = st.references_loaded,
                            !.response = st.full_response]

\* the first __anext__ on the generator: chat_stream runs from its first
\* statement to its first yield, or to its end when the stream delivers nothing
StreamBegin ==
    /\ ~Suspended
    /\ Len(messages) + 2 <= MaxMessages
    /\ LET selecting == auto_select_skill /\ active_skill = NoSkill
           ctx0 == [Context EXCEPT !.messages = Append(@, "user")]
       IN
       \E query \in (IF selecting THEN queries ELSE {NoQuery}) :
       \E matched \in {IF selecting THEN first_match(query) ELSE NoSkill} :
       \E classify \in (IF selecting /\ matched = NoSkill
                        THEN ClassifyInputs ELSE {NotCalled}) :
       LET chosen == IF matched # NoSkill THEN matched
                     ELSE llm_select_skill(classify)
           ctx1 == IF selecting /\ chosen # NoSkill
                   THEN select_skill(registry(TRUE), chosen, ctx0).ctx ELSE ctx0
           skill == ctx1.active_skill
           loading == auto_load_references /\ skill # NoSkill
           graded == IF loading THEN refs_for_llm(skill, ctx1.loaded_references)
                     ELSE << >>
       IN
       \E grading \in (IF graded # << >> THEN GradingInputs ELSE {NotCalled}) :
       \E recall \in (IF reference_summaries # << >>
                      THEN RecallInputs ELSE {NotCalled}) :
       LET la == IF loading
                 THEN load_applicable_references(skill, ctx1.loaded_references,
                                                 ref_content, grading)
                 ELSE [ref_content |-> ref_content,
                       loaded_references |-> ctx1.loaded_references,
                       loaded |-> << >>]
           need_recall == check_need_recall(recall, reference_summaries)
           rl == reload_each(skill, need_recall,
                             [ref_content |-> la.ref_content, recalled |-> << >>])
       IN
       \E response \in llm_texts, fails \in BOOLEAN :
           /\ initialized' = TRUE
           /\ discovered' = TRUE
           /\ ref_content' = rl.ref_content
           /\ pulled([NoStream EXCEPT !.response = response,
                                      !.pending = response,
                                      !.references_loaded = la.loaded],
                     [ctx1 EXCEPT !.loaded_references = la.loaded_references],
                     rl.ref_content, fails)
           /\ UNCHANGED request
           /\ UNCHANGED <<auto_select_skill, auto_load_references>>
           /\ UNCHANGED <<auto_execute_scripts, use_sandbox, llm_texts>>
           /\ UNCHANGED <<sandbox_vars, match_vars, client_vars, local_vars,
                          registry_vars, matcher_vars, pool_vars, sync_vars>>

\* a later __anext__: the generator resumes behind its yield
StreamResume ==
    /\ Suspended
    /\ \E fails \in BOOLEAN : pulled(stream, Context, ref_content, fails)
    /\ UNCHANGED request
    /\ UNCHANGED <<auto_select_skill, auto_load_references, initialized,
                   ref_content>>
    /\ UNCHANGED <<auto_execute_scripts, use_sandbox, discovered, llm_texts>>
    /\ UNCHANGED <<sandbox_vars, match_vars, client_vars, local_vars,
                   registry_vars, matcher_vars, pool_vars, sync_vars>>

\* mutant of StreamClose: the assistant message is appended in a finally clause,
\* so it is appended when the consumer stops too
StreamCloseAppends ==
    /\ Suspended
    /\ stream' = [stream EXCEPT !.pc = "closed"]
    /\ turn' = [NoTurn("aclose") EXCEPT !.returned = TRUE]
    /\ dispatched' = << >>
    /\ messages' = Append(messages, "assistant")
    /\ UNCHANGED request
    /\ UNCHANGED <<auto_select_skill, auto_load_references, initialized,
                   active_skill, state, loaded_references,
                   reference_summaries, instruction_loaded, ref_content>>
    /\ UNCHANGED <<auto_execute_scripts, use_sandbox, discovered, llm_texts>>
    /\ UNCHANGED <<sandbox_vars, match_vars, client_vars, local_vars,
                   registry_vars, matcher_vars, pool_vars, sync_vars>>

\* the consumer stops iterating: aclose() raises GeneratorExit at the yield and
\* no statement behind it runs
StreamClose ==
    /\ Suspended
    /\ stream' = [stream EXCEPT !.pc = "closed"]
    /\ turn' = [NoTurn("aclose") EXCEPT !.returned = TRUE]
    /\ dispatched' = << >>
    /\ UNCHANGED request
    /\ UNCHANGED <<auto_select_skill, auto_load_references, initialized,
                   messages, active_skill, state, loaded_references,
                   reference_summaries, instruction_loaded, ref_content>>
    /\ UNCHANGED <<auto_execute_scripts, use_sandbox, discovered, llm_texts>>
    /\ UNCHANGED <<sandbox_vars, match_vars, client_vars, local_vars,
                   registry_vars, matcher_vars, pool_vars, sync_vars>>

\* no generator has been made
StreamIdle == stream = NoStream

\* an application that selects skills and consumes streamed turns
StreamNext ==
    \/ Initialize \/ SelectSkill
    \/ StreamBegin \/ StreamResume \/ StreamClose

-----------------------------------------------------------------------------
(* OpenAICompatClient._make_request: one request with its retries           *)

\* max_retries of a client constructed without it, and the largest one used
DEFAULT_MAX_RETRIES == 2
MaxRetries == 2

\* what one POST comes back with: a response with a status code, or an
\* httpx.RequestError (no response: connection refused, timeout)
StatusAnswer(code) == [kind |-> "status", code |-> code]
RequestError == [kind |-> "RequestError", code |-> 0]
NoAnswer == [kind |-> "", code |-> 0]
PostAnswers ==
    {StatusAnswer(200), StatusAnswer(400), StatusAnswer(404), StatusAnswer(429),
     StatusAnswer(500), StatusAnswer(503), RequestError}

\* httpx.Response.is_error: response.raise_for_status() raises HTTPStatusError
is_error(answer) == answer.kind = "status" /\ answer.code >= 400

\* mutant of should_retry: the status code is not looked at
should_retry_any_status(answer, retries, max_retries) ==
    retries < max_retries

\* the two except clauses of _make_request: whether the failed attempt is
\* followed by a sleep and another attempt
should_retry(answer, retries, max_retries) ==
    IF answer.kind = "RequestError" THEN retries < max_retries
    ELSE /\ answer.code >= 500 \/ answer.code = 429
         /\ retries < max_retries

\* the call as the application sees it: where it stands, the retries argument
\* of the innermost call, the POSTs made, the sleeps taken, the answers
\* received, and the response returned or the error raised
NoRequest(max_retries) ==
    [pc |-> "none", max_retries |-> max_retries, retries |-> 0, attempts |-> 0,
     slept |-> << >>, answers |-> << >>, returned |-> NoAnswer,
     raised |-> NoAnswer]

\* OpenAICompatClient(max_retries=...)
RequestInit == request \in {NoRequest(m) : m \in 0..MaxRetries}

\* the client of the agent makes no request
RequestIdle == request = NoRequest(DEFAULT_MAX_RETRIES)

\* the request routine is between its call and its return
InProgress == request.pc \in {"posting", "sleeping"}

\* _make_request(payload) is called: the first POST is sent
MakeRequest ==
    /\ ~InProgress
    /\ request' = [NoRequest(request.max_retries) EXCEPT
                      !.pc = "posting", !.attempts = 1]
    /\ UNCHANGED stream
    /\ UNCHANGED <<sandbox_vars, agent_vars, script_vars, match_vars,
                   client_vars, local_vars, registry_vars, matcher_vars,
                   pool_vars, sync_vars>>

\* the POST comes back: the response is returned, or the error is raised, or
\* the routine goes to sleep for 2 ** retries seconds
PostReturns ==
    /\ request.pc = "posting"
    /\ \E answer \in PostAnswers :
           LET heard == [request EXCEPT !.answers = Append(@, answer)] IN
           request' =
               IF ~(answer.kind = "RequestError" \/ is_error(answer))
               THEN [heard EXCEPT !.pc = "returned", !.returned = answer]
               ELSE IF should_retry(answer, request.retries, request.max_retries)
               THEN [heard EXCEPT !.pc = "sleeping",
                                  !.slept = Append(@, 2 ^ request.retries)]
               ELSE [heard EXCEPT !.pc = "raised", !.raised = answer]
    /\ UNCHANGED stream
    /\ UNCHANGED <<sandbox_vars, agent_vars, script_vars, match_vars,
                   client_vars, local_vars, registry_vars, matcher_vars,
                   pool_vars, sync_vars>>

\* asyncio.sleep returns: _make_request(payload, retries + 1) sends the next POST,
\* and what it returns or raises is what the outer call returns or raises
SleepReturns ==
    /\ request.pc = "sleeping"
    /\ request' = [request EXCEPT !.pc = "posting", !.retries = @ + 1,
                                  !.attempts = @ + 1]
    /\ UNCHANGED stream
    /\ UNCHANGED <<sandbox_vars, agent_vars, script_vars, match_vars,
                   client_vars, local_vars, registry_vars, matcher_vars,
                   pool_vars, sync_vars>>

RequestNext == MakeRequest \/ PostReturns \/ SleepReturns

\* neither the generator nor the client is used
LlmIdle == StreamIdle /\ RequestIdle

\* the components of openskills.core are not used
CoreIdle ==
    /\ LocalIdle
    /\ RegistryIdle
    /\ MatcherIdle
    /\ PoolIdle
    /\ SyncIdle
    /\ LlmIdle

-----------------------------------------------------------------------------
(* Specifications                                                          *)

\* SkillAgent.__init__ and SkillManager.__init__ with their defaults for script
\* execution, and an LLM that answers in plain text
ScriptsOff ==
    /\ auto_execute_scripts = FALSE
    /\ use_sandbox = FALSE
    /\ discovered = FALSE
    /\ llm_texts = {PlainText}
    /\ dispatched = << >>

\* the default threshold, and an application whose messages either are a trigger
\* of alpha or match nothing
FewQueries ==
    /\ skill_match_threshold = DEFAULT_MATCH_THRESHOLD
    /\ queries = {ExactTrigger, Unrelated}

\* a pool of any strategy, beside an agent constructed with its defaults
SandboxSpecInit ==
    /\ SandboxInit
    /\ AgentInit
    /\ auto_select_skill = TRUE
    /\ auto_load_references = TRUE
    /\ ScriptsOff
    /\ FewQueries
    /\ ExecutorInit
    /\ CoreIdle

\* the executor pool on its own: the agent is left alone
SandboxSpec == SandboxSpecInit /\ [][SandboxNext]_vars

\* an agent of either configuration, beside a pool constructed as SkillManager does
AgentSpecInit ==
    /\ AgentInit
    /\ SandboxInit
    /\ strategy = PERSISTENT
    /\ auto_select_skill = auto_load_references
    /\ ScriptsOff
    /\ FewQueries
    /\ ExecutorInit
    /\ CoreIdle

\* the agent on its own: the pool is left alone
AgentSpec == AgentSpecInit /\ [][AgentNext]_vars

\* SkillAgent(auto_select_skill=False, auto_load_references=True): the
\* application selects the skills, the agent loads their references
MemorySpecInit ==
    /\ auto_select_skill = FALSE
    /\ auto_load_references = TRUE
    /\ initialized = FALSE
    /\ messages = << >>
    /\ active_skill = NoSkill
    /\ state = IDLE
    /\ loaded_references = << >>
    /\ reference_summaries = << >>
    /\ instruction_loaded = {}
    /\ ref_content = [path \in Paths |-> "none"]
    /\ turn = NoTurn("init")
    /\ SandboxInit
    /\ strategy = PERSISTENT
    /\ ScriptsOff
    /\ FewQueries
    /\ ExecutorInit
    /\ CoreIdle

\* the agent's memory over a conversation of three turns
MemorySpec == MemorySpecInit /\ [][MemoryNext]_vars

\* an agent that selects skills and loads references only when told to, with
\* script auto-execution on or off (off is the default), whose LLM answers with
\* invocation markers; scripts go to the local executor
ScriptSpecInit ==
    /\ AgentInit
    /\ auto_select_skill = FALSE
    /\ auto_load_references = FALSE
    /\ SandboxInit
    /\ strategy = PERSISTENT
    /\ auto_execute_scripts \in BOOLEAN
    /\ use_sandbox = FALSE
    /\ discovered = FALSE
    /\ llm_texts = Responses
    /\ dispatched = << >>
    /\ FewQueries
    /\ ExecutorInit
    /\ CoreIdle

ScriptSpec == ScriptSpecInit /\ [][ScriptNext]_vars

\* the thresholds an application sets: the matcher's own, the default, a strict one
Thresholds == {DEFAULT_MIN_SCORE, DEFAULT_MATCH_THRESHOLD, 900}

\* an agent that selects skills by itself and loads no references, with any
\* threshold and any message
MatchSpecInit ==
    /\ AgentInit
    /\ auto_select_skill = TRUE
    /\ auto_load_references = FALSE
    /\ SandboxInit
    /\ strategy = PERSISTENT
    /\ ScriptsOff
    /\ skill_match_threshold \in Thresholds
    /\ queries = Queries
    /\ ExecutorInit
    /\ CoreIdle

MatchSpec == MatchSpecInit /\ [][AgentNext]_vars

\* a manager with or without the sandbox, beside an idle agent on the same manager
RunSpecInit ==
    /\ AgentInit
    /\ auto_select_skill = FALSE
    /\ auto_load_references = FALSE
    /\ SandboxInit
    /\ strategy = PERSISTENT
    /\ auto_execute_scripts = FALSE
    /\ use_sandbox \in BOOLEAN
    /\ discovered = FALSE
    /\ llm_texts = {PlainText}
    /\ dispatched = << >>
    /\ FewQueries
    /\ ExecutorInit
    /\ CoreIdle

RunSpec == RunSpecInit /\ [][RunNext]_vars

\* one executor and its client, beside an idle agent and pool
ExecutorSpecInit ==
    /\ ExecutorInit
    /\ AgentInit
    /\ auto_select_skill = TRUE
    /\ auto_load_references = TRUE
    /\ SandboxInit
    /\ strategy = PERSISTENT
    /\ ScriptsOff
    /\ FewQueries
    /\ CoreIdle

ExecutorSpec == ExecutorSpecInit /\ [][ExecutorNext]_vars

\* the local executor in any environment, beside an idle agent and pool
LocalSpecInit ==
    /\ LocalInit
    /\ RegistryIdle
    /\ MatcherIdle
    /\ PoolIdle
    /\ SyncIdle
    /\ ExecutorInit
    /\ AgentInit
    /\ auto_select_skill = TRUE
    /\ auto_load_references = TRUE
    /\ SandboxInit
    /\ strategy = PERSISTENT
    /\ ScriptsOff
    /\ FewQueries
    /\ LlmIdle

LocalSpec == LocalSpecInit /\ [][LocalNext]_vars

\* a manager over one of the trees, whose files are edited between its calls
RegistrySpecInit ==
    /\ RegistryInit
    /\ LocalIdle
    /\ MatcherIdle
    /\ PoolIdle
    /\ SyncIdle
    /\ ExecutorInit
    /\ AgentInit
    /\ auto_select_skill = TRUE
    /\ auto_load_references = TRUE
    /\ SandboxInit
    /\ strategy = PERSISTENT
    /\ ScriptsOff
    /\ FewQueries
    /\ LlmIdle

RegistrySpec == RegistrySpecInit /\ [][RegistryNext]_vars

\* a matcher of any minimum score, beside an idle agent and pool
RankSpecInit ==
    /\ MatcherInit
    /\ LocalIdle
    /\ RegistryIdle
    /\ PoolIdle
    /\ SyncIdle
    /\ ExecutorInit
    /\ AgentInit
    /\ auto_select_skill = TRUE
    /\ auto_load_references = TRUE
    /\ SandboxInit
    /\ strategy = PERSISTENT
    /\ ScriptsOff
    /\ FewQueries
    /\ LlmIdle

RankSpec == RankSpecInit /\ [][Match]_vars

PoolSpecInit ==
    /\ SandboxInit
    /\ PoolInit
    /\ LocalIdle
    /\ RegistryIdle
    /\ MatcherIdle
    /\ SyncIdle
    /\ ExecutorInit
    /\ AgentInit
    /\ auto_select_skill = TRUE
    /\ auto_load_references = TRUE
    /\ ScriptsOff
    /\ FewQueries
    /\ LlmIdle

PoolSpec == PoolSpecInit /\ [][PoolNext]_vars

DownloadSpecInit ==
    /\ SyncInit
    /\ PoolIdle
    /\ LocalIdle
    /\ RegistryIdle
    /\ MatcherIdle
    /\ ExecutorInit
    /\ AgentInit
    /\ auto_select_skill = TRUE
    /\ auto_load_references = TRUE
    /\ SandboxInit
    /\ strategy = PERSISTENT
    /\ ScriptsOff
    /\ FewQueries
    /\ LlmIdle

DownloadSpec == DownloadSpecInit /\ [][Download]_vars

UploadSpecInit ==
    /\ SyncInit
    /\ PoolIdle
    /\ LocalIdle
    /\ RegistryIdle
    /\ MatcherIdle
    /\ ExecutorInit
    /\ AgentInit
    /\ auto_select_skill = TRUE
    /\ auto_load_references = TRUE
    /\ SandboxInit
    /\ strategy = PERSISTENT
    /\ ScriptsOff
    /\ FewQueries
    /\ LlmIdle

UploadSpec == UploadSpecInit /\ [][Upload]_vars

\* an agent that loads references by itself, with script auto-execution on or
\* off, whose LLM streams an answer without and one with an invocation marker
StreamSpecInit ==
    /\ auto_select_skill = FALSE
    /\ auto_load_references = TRUE
    /\ initialized = FALSE
    /\ messages = << >>
    /\ active_skill = NoSkill
    /\ state = IDLE
    /\ loaded_references = << >>
    /\ reference_summaries = << >>
    /\ instruction_loaded = {}
    /\ ref_content = [path \in Paths |-> "none"]
    /\ turn = NoTurn("init")
    /\ SandboxInit
    /\ strategy = PERSISTENT
    /\ auto_execute_scripts \in BOOLEAN
    /\ use_sandbox = FALSE
    /\ discovered = FALSE
    /\ llm_texts = {PlainText, WithoutArgs}
    /\ dispatched = << >>
    /\ FewQueries
    /\ ExecutorInit
    /\ LocalIdle
    /\ RegistryIdle
    /\ MatcherIdle
    /\ PoolIdle
    /\ SyncIdle
    /\ StreamIdle
    /\ RequestIdle

StreamSpec == StreamSpecInit /\ [][StreamNext]_vars

\* an LLM client of any max_retries, beside an idle agent
RequestSpecInit ==
    /\ RequestInit
    /\ StreamIdle
    /\ LocalIdle
    /\ RegistryIdle
    /\ MatcherIdle
    /\ PoolIdle
    /\ SyncIdle
    /\ ExecutorInit
    /\ AgentInit
    /\ auto_select_skill = TRUE
    /\ auto_load_references = TRUE
    /\ SandboxInit
    /\ strategy = PERSISTENT
    /\ ScriptsOff
    /\ FewQueries

RequestSpec == RequestSpecInit /\ [][RequestNext]_vars

\* the same client when every POST comes back, with a response or, after the
\* client's timeout at the latest, with an error, and every sleep ends
RequestLiveSpec ==
    /\ RequestSpecInit
    /\ [][RequestNext]_vars
    /\ WF_vars(PostReturns)
    /\ WF_vars(SleepReturns)

-----------------------------------------------------------------------------
(* Properties of the SandboxManager                                        *)

IsCall(c) == c.op = "get_executor"
Returned(c) == c.op = "get_executor" /\ c.raised = ""

\* the position of a name in a sequence of names (0 when absent)
Pos(order, name) ==
    IF \E i \in DOMAIN order : order[i] = name
    THEN CHOOSE i \in DOMAIN order : order[i] = name ELSE 0

CacheNames(c) == [i \in DOMAIN c |-> c[i].name]

C1_PooledInstance ==
    strategy = PER_SKILL =>
        /\ \A i, j \in DOMAIN cache :
               i # j => cache[i].name # cache[j].name
                        /\ cache[i].executor # cache[j].executor
        /\ Returned(last_call) /\ last_call.skill \in CacheKeys(cache)
               => CacheGet(cache, last_call.skill) = last_call.value

C1_CallOnPool ==
    (strategy = PER_SKILL /\ active /\ IsCall(last_call'))
        => IF last_call'.skill \in CacheKeys(cache)
           THEN /\ last_call'.raised = ""
                /\ last_call'.value = CacheGet(cache, last_call'.skill)
                /\ last_call'.created = 0
                /\ Len(executors') = Len(executors)
           ELSE last_call'.raised = ""
                    => /\ last_call'.created = 1
                       /\ last_call'.value \notin CacheExecutors(cache)
                       /\ last_call'.value \notin DOMAIN executors

\* C1: under PER_SKILL, in an active scope, a get_executor call for a skill name
\* whose entry is still cached returns the executor cached for it (the one the
\* earlier call returned) and creates nothing; a call for a name that is not cached
\* returns a newly created executor, different from every cached one.
C1_SameSkillSameExecutor == []C1_PooledInstance /\ [][C1_CallOnPool]_vars

\* C1 witness: a cache hit while a second skill name is cached with another executor
C1_Witness ==
    /\ strategy = PER_SKILL /\ active
    /\ Returned(last_call) /\ last_call.created = 0
    /\ Len(cache) = 2
    /\ Len(executors) = 2
    /\ last_call.value = CacheGet(cache, last_call.skill)

C2_Bounded ==
    strategy = PER_SKILL =>
        /\ Len(cache) <= cache_size
        /\ CacheNames(cache) = SelectSeq(use_order, LAMBDA n : n \in CacheKeys(cache))

C2_Eviction ==
    (strategy = PER_SKILL /\ Returned(last_call'))
        => LET hit == last_call'.skill \in CacheKeys(cache)
               evicted == (CacheKeys(cache) \cup {last_call'.skill})
                              \ CacheKeys(cache')
               dropped == (CacheExecutors(cache) \cup {last_call'.value})
                              \ CacheExecutors(cache')
               grown == IF hit THEN Len(cache) ELSE Len(cache) + 1
           IN  /\ Len(cache') = IF grown > cache_size THEN cache_size ELSE grown
               /\ \A n \in evicted : \A m \in CacheKeys(cache') :
                      Pos(use_order', n) < Pos(use_order', m)
               /\ \A e \in dropped : ~executors'[e].live
               /\ \A e \in CacheExecutors(cache') : executors'[e].live

\* C2: under PER_SKILL the cache never holds more than cache_size executors and
\* keeps its entries in order of last use (a hit is a use); a call removes entries
\* only when the insertion exceeds the capacity, the entries it removes were used
\* less recently than every entry it keeps, and their executors are torn down.
C2_LruEviction == []C2_Bounded /\ [][C2_Eviction]_vars

\* C2 witness: with capacity 2, the second executor created was evicted and torn
\* down by the third insertion while the first, used again in between, stayed
C2_Witness ==
    /\ strategy = PER_SKILL /\ active /\ cache_size = 2
    /\ Returned(last_call) /\ last_call.created = 1 /\ last_call.value = 3
    /\ CacheExecutors(cache) = {1, 3}
    /\ ~executors[2].live /\ executors[2].setups # NoSetups

C3_InactiveCall ==
    (~active /\ IsCall(last_call'))
        => /\ last_call'.raised = "RuntimeError"
           /\ last_call'.value = NoExecutor
           /\ last_call'.created = 0
           /\ UNCHANGED <<cache, persistent_executor, installed_deps, executors>>

\* C3: a get_executor (or warmup) call made while the manager is not active, before
\* the scope is entered or after it is exited, raises RuntimeError, creates no
\* executor and changes none of cache, persistent executor and installed set.
C3_NotActiveRaises == [][C3_InactiveCall]_vars

\* C3 witness: the call raised after a scope in which executors were created
C3_Witness ==
    /\ ~active /\ IsCall(last_call) /\ last_call.raised = "RuntimeError"
    /\ Len(executors) > 0

\* C4: under a pooling strategy, when get_executor returns for a call made with a
\* non-empty dependency, the setup of that skill has run on the returned executor,
\* and exactly once.
C4_DependenciesInstalledOnce ==
    (strategy \in {PER_SKILL, PERSISTENT} /\ Returned(last_call)
         /\ has_dependencies(last_call.dependency))
        => executors[last_call.value].setups[last_call.skill] = 1

\* C5: after the scope exits every executor the manager created is torn down, the
\* cache is empty, there is no persistent executor and no installed dependency.
C5_AllCleanedUpOnExit ==
    last_call.op = "exit"
        => /\ \A e \in DOMAIN executors : ~executors[e].live
           /\ cache = <<>>
           /\ persistent_executor = NoExecutor
           /\ installed_deps = {}

-----------------------------------------------------------------------------
(* Properties of the SkillAgent                                            *)

IsChat == turn.op = "chat"

SummarizedPaths == Range(PathsOf(reference_summaries))

\* the references of a skill declared with mode ALWAYS
AlwaysReferences(skill) ==
    {r \in Range(SkillReferences(skill)) : r.mode = ALWAYS}

\* the lines of the last grading answer that carry the number i
LinesNumbered(i) ==
    {k \in DOMAIN turn.grading.lines : turn.grading.lines[k].label = i}

\* the grader answered NO for the i-th reference it was shown
GradedNo(i) ==
    /\ turn.grading.status = "answered"
    /\ LinesNumbered(i) # {}
    /\ \A k \in LinesNumbered(i) : turn.grading.lines[k].body = "NO"

\* the grader answered YES for the i-th reference, in the format it was asked for
GradedYes(i) ==
    /\ turn.grading.status = "answered"
    /\ LinesNumbered(i) # {}
    /\ \A k \in LinesNumbered(i) : /\ turn.grading.lines[k].body = "YES"
                                   /\ turn.grading.lines[k].sep = "."

\* C6: the conversation state is IDLE or SKILL_ACTIVE and never
\* AWAITING_CONFIRMATION; it is SKILL_ACTIVE exactly when an active skill is set;
\* the active skill is one skill of the registry or none; a select_skill that
\* returned True leaves the state SKILL_ACTIVE with that skill active, and
\* deselect_skill leaves it IDLE with no active skill.
C6_StateFollowsActiveSkill ==
    /\ state \in AgentState \ {AWAITING_CONFIRMATION}
    /\ active_skill \in Skills \cup {NoSkill}
    /\ (state = SKILL_ACTIVE) <=> (active_skill # NoSkill)
    /\ (turn.op = "select_skill" /\ turn.result)
           => (state = SKILL_ACTIVE /\ active_skill = turn.skill)
    /\ (turn.op = "select_skill" /\ ~turn.result) => turn.skill \notin registry(initialized)
    /\ turn.op = "deselect_skill" => (state = IDLE /\ active_skill = NoSkill)

\* a skill selected by hand in a conversation that already has messages
C6_Witness ==
    /\ turn.op = "select_skill" /\ turn.result
    /\ state = SKILL_ACTIVE /\ active_skill = "beta"
    /\ messages # << >>

C8_GradedNoIsNotLoaded ==
    IsChat =>
        /\ \A i \in DOMAIN turn.graded :
               GradedNo(i) => /\ turn.graded[i] \notin Range(turn.references_loaded)
                              /\ turn.graded[i] \notin Range(loaded_references)
        /\ \A i \in DOMAIN turn.graded :
               get_reference(active_skill, turn.graded[i]).mode \in {EXPLICIT, IMPLICIT}
        /\ (/\ active_skill = "alpha"
            /\ turn.graded = << "alpha/budget.md" >>
            /\ "alpha/spec.md" \notin Range(turn.loaded_before))
               => /\ GradedNo(1) => turn.references_loaded = << "alpha/spec.md" >>
                  /\ GradedYes(1) => turn.references_loaded =
                                         << "alpha/spec.md", "alpha/budget.md" >>

\* the grader said NO for the EXPLICIT reference and only the ALWAYS one was loaded
C8_Witness ==
    /\ IsChat /\ active_skill = "alpha"
    /\ turn.graded = << "alpha/budget.md" >> /\ GradedNo(1)
    /\ turn.references_loaded = << "alpha/spec.md" >>

\* C9: a chat turn whose main LLM call succeeds returns, whatever advisory call
\* raised: a failed classification selects no skill, a failed grading loads no
\* graded reference, a failed recall detection recalls nothing, and every
\* reference loaded in the turn has a cached summary, the content prefix when its
\* summary call raised.
C9_AdvisoryFailureKeepsTurn ==
    (IsChat /\ turn.main = "ok") =>
        /\ turn.returned
        /\ turn.classify.status = "raised"
               => (active_skill = NoSkill /\ turn.skill_used = NoSkill)
        /\ turn.grading.status = "raised"
               => \A i \in DOMAIN turn.graded :
                      /\ turn.graded[i] \notin Range(turn.references_loaded)
                      /\ turn.graded[i] \notin Range(loaded_references)
        /\ turn.recall.status = "raised" => turn.recalled = << >>
        /\ \A path \in Range(turn.references_loaded) :
               /\ path \in SummarizedPaths
               /\ path \in turn.summary_raised
                      => [path |-> path, summary |-> "prefix"]
                             \in Range(reference_summaries)

\* grading, recall detection and summary generation all raised in one turn
C9_Witness ==
    /\ IsChat /\ turn.returned
    /\ turn.grading.status = "raised"
    /\ turn.recall.status = "raised"
    /\ turn.summary_raised # {}

\* the classification call raised and the turn returned with no skill
C9_ClassificationWitness ==
    /\ IsChat /\ turn.returned
    /\ turn.classify.status = "raised"

\* C10: in a chat turn that completes, every reference that already has a summary
\* when the turn starts is in the system prompt by its summary and not by its full
\* content, unless that path is recalled in the turn.
C10_LaterPromptHasSummaryNotContent ==
    [][(turn'.op = "chat" /\ turn'.returned) =>
          \A path \in SummarizedPaths :
              path \notin Range(turn'.recalled)
                  => /\ path \in Range(turn'.prompt.summaries)
                     /\ path \notin Range(turn'.prompt.references)]_vars

\* a second turn of the same skill: the reference summarized in the first turn is
\* in the prompt in full and its summary is left out
C10_Witness ==
    /\ IsChat /\ turn.returned
    /\ turn.recalled = << >>
    /\ \E path \in SummarizedPaths \ Range(turn.references_loaded) :
           /\ path \in Range(turn.prompt.references)
           /\ path \notin Range(turn.prompt.summaries)

\* s is an initial segment of t
IsPrefix(s, t) == Len(s) <= Len(t) /\ \A i \in DOMAIN s : s[i] = t[i]

\* C11: no call other than deselect_skill and reset removes a path from
\* loaded_references (the list only grows at its end); deselect_skill empties
\* loaded_references and leaves reference_summaries as it was; a chat turn keeps
\* every existing summary entry, unchanged and in place.
C11_LoadedGrowsSummariesSurvive ==
    [][/\ turn'.op \notin {"deselect_skill", "reset"}
           => IsPrefix(loaded_references, loaded_references')
       /\ turn'.op = "deselect_skill"
           => /\ loaded_references' = << >>
              /\ reference_summaries' = reference_summaries
       /\ turn'.op = "chat"
           => IsPrefix(reference_summaries, reference_summaries')]_vars

\* a skill with loaded and summarized references has been deselected
C11_Witness ==
    /\ turn.op = "deselect_skill"
    /\ loaded_references = << >>
    /\ Len(reference_summaries) >= 2
    /\ messages # << >>

\* the skills a classification answer names: its text without the surrounding
\* quotes, compared with the registered names without regard to letter case
NamedBy(text) == IF text = "\"Beta\"" THEN {"beta"} ELSE {}

\* C12: in a chat turn that starts with no active skill and auto-selection on, the
\* classification call is made exactly when the matcher returned no candidate; a
\* matcher candidate is selected; a classification answer that names no known
\* skill, or a failed call, selects nothing, and one that names a skill selects
\* it. In a turn that starts with a skill active, or with auto-selection off,
\* neither the matcher's result nor a classification answer is used and the
\* active skill is left unchanged.
C12_MatcherThenClassifier ==
    [][turn'.op = "chat" =>
          IF auto_select_skill /\ active_skill = NoSkill
          THEN /\ (turn'.classify.status # "not_called") <=> (turn'.matched = NoSkill)
               /\ turn'.matched # NoSkill => active_skill' = turn'.matched
               /\ (/\ turn'.classify.status = "answered"
                   /\ NamedBy(turn'.classify.text) = {})
                      => active_skill' = NoSkill
               /\ turn'.classify.status = "raised" => active_skill' = NoSkill
               /\ \A name \in NamedBy(turn'.classify.text) :
                      turn'.classify.status = "answered" => active_skill' = name
          ELSE /\ turn'.matched = NoSkill
               /\ turn'.classify.status = "not_called"
               /\ active_skill' = active_skill]_vars

\* the classifier answered with a text that only contains a skill name, and the
\* turn completed with no skill
C12_Witness ==
    /\ IsChat /\ turn.returned
    /\ turn.classify.status = "answered" /\ turn.classify.text = "beta skill"
    /\ active_skill = NoSkill

-----------------------------------------------------------------------------
(* Properties of script execution                                          *)

Marker(name, args) == [name |-> << name >>, args |-> args]

\* the invocation markers a reader finds in each response, in order of appearance
MarkersOf(response) ==
    IF response = WithArgs THEN << Marker("upload", <<"hello">>) >>
    ELSE IF response = WithoutArgs THEN << Marker("upload", << >>) >>
    ELSE IF response = MissingThenGood
    THEN << Marker("report", << >>), Marker("upload", << >>) >>
    ELSE IF response = Twice
    THEN << Marker("upload", << >>), Marker("upload", << >>) >>
    ELSE IF response = UnknownScript THEN << Marker("plot", << >>) >>
    ELSE IF response = NestedArgs
    THEN << Marker("upload", << >>),
            Marker("report", <<"x", "(", "hello", ")">>) >>
    ELSE << >>

\* each response without its markers and without surrounding white space
WithoutMarkers(response) ==
    IF response = WithoutArgs THEN <<"hello">>
    ELSE IF response \in {Twice, UnknownScript} THEN <<"x">>
    ELSE << >>

\* the script of that name exists for the skill, file included
Runnable(skill, name) ==
    \E i \in DOMAIN SkillScripts(skill) :
        SkillScripts(skill)[i].name = name /\ SkillScripts(skill)[i].file

\* the positions of ms that satisfy Keep, in order
Positions(ms, Keep(_)) == SelectSeq([i \in DOMAIN ms |-> i], Keep)

\* a chat turn that looked for invocations in its response
Handled == IsChat /\ turn.main = "ok" /\ auto_execute_scripts /\ turn.skill_used # NoSkill

\* C13: in a chat turn with auto-execution on and a skill active, the executor is
\* handed the runnable invocations of the response, each once and in order of
\* appearance, whether or not an earlier one raised; the turn returns; and
\* scripts_executed is the list of the invocations that ran to completion.
C13_EachInvocationOnceFailuresSwallowed ==
    Handled =>
        LET ms == MarkersOf(turn.response)
            tried == Positions(ms, LAMBDA i : Runnable(turn.skill_used, ms[i].name))
            done == Positions(ms, LAMBDA i : /\ Runnable(turn.skill_used, ms[i].name)
                                             /\ turn.runs[i] = "ok")
        IN
        /\ turn.returned
        /\ DOMAIN turn.runs = DOMAIN ms
        /\ [k \in DOMAIN dispatched |-> dispatched[k].script]
               = [k \in DOMAIN tried |-> ms[tried[k]].name]
        /\ turn.scripts_executed = [k \in DOMAIN done |-> ms[done[k]].name]

\* of two invocations of the same script the first raised and the second ran
C13_Witness ==
    /\ Handled /\ turn.returned
    /\ turn.response = Twice
    /\ turn.runs = <<"raises", "ok">>
    /\ Len(dispatched) = 2
    /\ turn.scripts_executed = << <<"upload">> >>

\* C14: with auto_execute_scripts off, a chat turn hands nothing to an executor
\* and reports no executed script, whatever markers its response holds; only an
\* execute_script call does.
C14_NoAutoExecutionByDefault ==
    ~auto_execute_scripts =>
        /\ IsChat => dispatched = << >> /\ turn.scripts_executed = << >>
        /\ dispatched # << >> => turn.op = "execute_script"

\* with the switch off, a turn whose response holds a runnable invocation
C14_Witness ==
    /\ ~auto_execute_scripts
    /\ IsChat /\ turn.returned
    /\ turn.skill_used = "alpha"
    /\ turn.response = WithArgs
    /\ dispatched = << >>

\* C15: extraction yields the markers of the text in order, one (name, args) pair
\* each, args empty without a parenthesised part; and a script is handed the args
\* of its invocation when there are any, else the response without any marker.
C15_ExtractionAndInput ==
    Handled =>
        LET ms == MarkersOf(turn.response)
            tried == Positions(ms, LAMBDA i : Runnable(turn.skill_used, ms[i].name))
        IN
        /\ extract_script_invocations(turn.response) = ms
        /\ \A k \in DOMAIN dispatched :
               k \in DOMAIN tried =>
                   dispatched[k].input_data =
                       IF ms[tried[k]].args # << >> THEN ms[tried[k]].args
                       ELSE WithoutMarkers(turn.response)

\* an invocation without args ran on a response whose other marker has
\* parentheses inside its args: the text it was handed still holds that marker
C15_Witness ==
    /\ Handled /\ turn.returned
    /\ turn.response = NestedArgs
    /\ turn.scripts_executed = << <<"upload">> >>
    /\ \E k \in DOMAIN dispatched : INVOKE \in Range(dispatched[k].input_data)

-----------------------------------------------------------------------------
(* Properties of skill matching                                            *)

\* the score of each message for each skill, in thousandths
ScoreOf(query, skill) ==
    IF skill = "alpha"
    THEN IF query = ExactTrigger THEN 1000
         ELSE IF query = AroundTrigger THEN 800
         ELSE IF query = TriggerWords THEN 720
         ELSE IF query = ByName THEN 700
         ELSE IF query \in {ByTag, TwoSkills} THEN 400
         ELSE IF query = ByKeyword THEN 375
         ELSE 0
    ELSE IF skill = "beta" /\ query = TwoSkills THEN 500
    ELSE 0

\* C16: a chat turn selects the matcher's candidate only if the candidate's score
\* for the message is at least the agent's skill_match_threshold.
C16_MatchRespectsThreshold ==
    (IsChat /\ turn.matched # NoSkill)
        => ScoreOf(turn.query, turn.matched) >= skill_match_threshold

\* with the default threshold, a message that only holds a tag of alpha has
\* selected alpha
C16_Witness ==
    /\ IsChat /\ turn.returned
    /\ skill_match_threshold = DEFAULT_MATCH_THRESHOLD
    /\ turn.query = ByTag
    /\ turn.matched = "alpha"
    /\ active_skill = "alpha"

-----------------------------------------------------------------------------
(* Properties of SkillManager.execute_script                               *)

\* the registered skill has a script of that name whose file exists
Valid(skill, script) ==
    /\ discovered
    /\ <<skill, script>> \in {<<"alpha", <<"upload">> >>, <<"beta", <<"plot">> >>}

\* the pool is as it was
PoolUntouched ==
    /\ executors' = executors
    /\ persistent_executor' = persistent_executor
    /\ installed_deps' = installed_deps
    /\ cache' = cache

\* C17: execute_script for a skill that is not registered, a script the skill
\* does not have or a script whose file is missing raises ValueError, hands
\* nothing to the local executor and leaves the sandbox pool untouched (no
\* executor obtained, no upload, no command); the agent's execute_script with no
\* active skill raises ValueError as well.
C17_InvalidCallDispatchesNothing ==
    [][/\ (turn'.op = "manager.execute_script" /\ ~Valid(turn'.skill, turn'.script))
           => /\ turn'.raised = "ValueError"
              /\ dispatched' = << >>
              /\ PoolUntouched
       /\ (turn'.op = "execute_script" /\ active_skill = NoSkill)
           => /\ turn'.raised = "ValueError"
              /\ dispatched' = << >>
              /\ PoolUntouched]_vars

\* in sandbox mode with the pool entered, a script of alpha whose file is missing
\* was asked for
C17_Witness ==
    /\ turn.op = "manager.execute_script"
    /\ discovered /\ use_sandbox /\ active
    /\ turn.skill = "alpha" /\ turn.script = <<"report">>
    /\ turn.raised = "ValueError"
    /\ dispatched = << >>

Steps == [k \in DOMAIN dispatched |-> dispatched[k].step]

\* every step a comes before every step b
Before(a, b) ==
    \A i, j \in DOMAIN dispatched :
        (dispatched[i].step = a /\ dispatched[j].step = b) => i < j

SandboxRun ==
    /\ turn.op \in {"manager.execute_script", "execute_script"}
    /\ \E k \in DOMAIN dispatched : dispatched[k].step # "local_execute"

DeclaresOutputs(skill, script) == skill = "alpha" /\ script = <<"upload">>

\* what C18 says beside the order of obtaining the executor and uploading: the
\* script runs on uploaded inputs and installed dependencies, a download comes
\* after the run, only for declared outputs, and never after a run that raised
RunsPrepared ==
    /\ Before("get_executor", "execute")
    /\ Before("upload", "execute")
    /\ Before("execute", "download")
    /\ \A k \in DOMAIN dispatched :
           /\ dispatched[k].step = "execute"
                  => /\ dispatched[k].input_data # LocalFile
                     /\ dispatched[k].skill = "alpha" => "alpha" \in installed_deps
           /\ dispatched[k].step = "download"
                  => /\ "execute" \in Range(Steps)
                     /\ DeclaresOutputs(dispatched[k].skill, dispatched[k].script)
                     /\ turn.raised = ""
    /\ turn.raised # "" => "download" \notin Range(Steps)

\* C18 as stated: the steps of a sandbox execution come in the order upload,
\* obtain the executor, execute, download; the script runs on uploaded inputs and
\* installed dependencies; a download follows the run, only for declared outputs,
\* and none follows a run that raised.
C18_UploadThenExecutor ==
    SandboxRun => (Before("upload", "get_executor") /\ RunsPrepared)

\* C18, amended: the steps of a sandbox execution come in the order obtain the
\* executor, upload, execute, download; the script runs on uploaded inputs and
\* installed dependencies; a download follows the run, only for declared outputs,
\* and none follows a run that raised.
C18_ExecutorThenUpload ==
    SandboxRun => (Before("get_executor", "upload") /\ RunsPrepared)

\* a script of alpha that declares outputs ran in the sandbox on a local file
C18_Witness ==
    /\ SandboxRun /\ turn.returned
    /\ Steps = <<"get_executor", "upload", "execute", "download">>
    /\ "alpha" \in installed_deps

-----------------------------------------------------------------------------
(* Properties of the executor and its client                               *)

\* the commands of a setup in the order the documentation gives: the pip
\* upgrade if asked for, the pip install if packages are declared, then the
\* declared system commands
SetupOrder(dependency, upgrade_pip) ==
    (IF upgrade_pip THEN <<"pip_upgrade">> ELSE << >>)
    \o (IF dependency.python # << >> THEN <<"pip_install">> ELSE << >>)
    \o dependency.system

SentCommands == [i \in DOMAIN call.sent |-> call.sent[i].command]

ExitedNonZero(s) == s.answered /\ s.exit_code # 0

\* C19: setup_environment sends its commands in order (pip upgrade if asked for,
\* pip install, each system command); no command is sent after one that exited
\* non-zero; a call in which a command exited non-zero raises
\* SandboxExecutionError and leaves _environment_ready as it was.
C19_SetupStopsAtFirstFailure ==
    [][call'.op = "setup_environment" =>
          /\ IsPrefix(SentCommands', SetupOrder(call'.dependency, call'.upgrade_pip))
          /\ \A i \in DOMAIN call'.sent :
                 ExitedNonZero(call'.sent[i]) =>
                     /\ i = Len(call'.sent)
                     /\ call'.raised.class = "SandboxExecutionError"
                     /\ environment_ready' = environment_ready]_vars

\* a pip upgrade that exited non-zero was followed by the pip install, and the
\* call returned with the environment marked ready
C19_Witness ==
    /\ call.op = "setup_environment"
    /\ call.upgrade_pip
    /\ Len(call.sent) >= 2
    /\ ExitedNonZero(call.sent[1])
    /\ call.raised = NoError
    /\ environment_ready

\* C20: a client operation whose connection fails raises
\* SandboxConnectionError, and not SandboxExecutionError; raise_for_status on
\* the result of a command that exited non-zero raises SandboxExecutionError
\* with that exit code and stderr, and not SandboxConnectionError.
C20_ConnectionAndExecutionErrorsDistinct ==
    /\ (call.op \in ClientOps /\ call.kind = "connect_error")
           => call.raised.class = "SandboxConnectionError"
    /\ (call.op = "raise_for_status" /\ call.result.exit_code # 0)
           => call.raised = [class |-> "SandboxExecutionError",
                             exit_code |-> call.result.exit_code,
                             stderr |-> call.result.stderr]

\* an upload whose connection failed raised the exception of the HTTP library
C20_Witness ==
    /\ call.op = "upload_file"
    /\ call.kind = "connect_error"
    /\ call.raised.class = "httpx.ConnectError"

-----------------------------------------------------------------------------
(* Properties of the sandbox client's requests and the local executor       *)

\* the failures of a request that are worth another attempt: the connection
\* failed, or the server answered 429 or a 5xx status
Transient(c) ==
    \/ c.kind = "connect_error"
    \/ c.kind = "http_status" /\ (c.status = 429 \/ c.status >= 500)

\* C21: a client operation whose request fails with a 5xx or 429 response or
\* a connection error sends the request again, so the call has sent more than
\* one request when it ends.
C21_TransientFailureRetried ==
    (call.op \in ClientOps /\ Transient(call)) => call.requests > 1

\* exec_command met a 503 answer and raised after its only request
C21_Witness ==
    /\ call.op = "exec_command"
    /\ call.kind = "http_status" /\ call.status = 503
    /\ call.requests = 1
    /\ call.raised.class = "httpx.HTTPStatusError"

\* C22: a script that outlives its timeout raises an error of a timeout class,
\* which is not the class of the execution error that a script exiting with
\* code 1 raises; that execution error carries the exit code and stderr.
C22_TimeoutErrorDistinct ==
    /\ (process.op = "execute" /\ process.started /\ ~process.hangs
            /\ process.returncode = 1)
           => process.raised = [class |-> "ScriptExecutionError",
                                returncode |-> 1, stderr |-> process.stderr]
    /\ (process.op = "execute" /\ process.started /\ process.hangs)
           => process.raised.class \notin {"", "ScriptExecutionError"}

\* a script outlived its timeout and the call raised ScriptExecutionError
C22_Witness ==
    /\ process.op = "execute"
    /\ process.started /\ process.hangs
    /\ process.raised.class = "ScriptExecutionError"

\* the calls that computed a child environment
Prepared ==
    \/ process.op = "prepare_environment"
    \/ process.op = "execute" /\ process.started

\* C23: with sandboxing the child environment holds no denylisted name,
\* inherited or extra, and holds OPENSKILLS_SANDBOX = "1"; without sandboxing
\* it is the inherited environment overlaid with the extra one, nothing
\* removed and nothing added.
C23_EnvironmentScrubbed ==
    Prepared =>
        IF process.sandbox
        THEN /\ DOMAIN process.env \cap sensitive_vars = {}
             /\ "OPENSKILLS_SANDBOX" \in DOMAIN process.env
             /\ process.env["OPENSKILLS_SANDBOX"] = "1"
        ELSE /\ DOMAIN process.env = DOMAIN environ \cup DOMAIN process.extra_env
             /\ \A n \in DOMAIN process.extra_env :
                    process.env[n] = process.extra_env[n]
             /\ \A n \in DOMAIN environ \ DOMAIN process.extra_env :
                    process.env[n] = environ[n]

\* a sandboxed script started with credentials in both the inherited and the
\* extra environment, and its environment has neither
C23_Witness ==
    /\ process.op = "execute"
    /\ process.started /\ process.sandbox
    /\ DOMAIN environ \cap sensitive_vars # {}
    /\ DOMAIN process.extra_env \cap sensitive_vars # {}
    /\ DOMAIN process.env \cap sensitive_vars = {}
    /\ "PATH" \in DOMAIN process.env

\* without sandboxing a credential and an inherited marker stay in place
C23_UnsandboxedWitness ==
    /\ process.op = "execute"
    /\ process.started /\ ~process.sandbox
    /\ "GITHUB_TOKEN" \in DOMAIN process.env
    /\ process.env["OPENSKILLS_SANDBOX"] = "inherited"

-----------------------------------------------------------------------------
(* Properties of the SkillManager's registry                                *)

\* the documents discover looks at: SKILL.md of the root and of its
\* subdirectories
ScannedPaths == {"a/SKILL.md", "b/SKILL.md", "SKILL.md"}

\* a document that parses: a header that is a mapping with a name and a
\* description, and a version of the required form
WellFormed(doc) ==
    /\ doc.present
    /\ doc.frontmatter = "mapping"
    /\ {"name", "description"} \subseteq doc.fields
    /\ doc.version_ok

WellFormedPaths == {p \in ScannedPaths : WellFormed(files[p])}

\* C24: discover raises nothing whatever the documents are; a discover that
\* scans registers every well-formed document it looks at and nothing else,
\* and with one malformed and one well-formed document exactly one skill is
\* registered.
C24_MalformedDocumentsSkipped ==
    registry_call.op = "discover" =>
        /\ registry_call.raised = ""
        /\ discovered
        /\ registry_call.scanned =>
            /\ {e.source_path : e \in Range(_metadata_index)} = WellFormedPaths
            /\ Len(_metadata_index) = Cardinality(WellFormedPaths)
            /\ DOMAIN _skills = {files[p].name : p \in WellFormedPaths}
            /\ (/\ Cardinality({p \in ScannedPaths : files[p].present}) = 2
                /\ Cardinality(WellFormedPaths) = 1)
                   => (Cardinality(DOMAIN _skills) = 1 /\ Len(_metadata_index) = 1)

\* discover over a well-formed document and one without a description
\* registered the well-formed one only
C24_Witness ==
    /\ registry_call.op = "discover" /\ registry_call.scanned
    /\ WellFormed(files["a/SKILL.md"])
    /\ files["b/SKILL.md"].present /\ ~WellFormed(files["b/SKILL.md"])
    /\ ~files["SKILL.md"].present
    /\ DOMAIN _skills = {"alpha"}
    /\ Len(_metadata_index) = 1

-----------------------------------------------------------------------------
(* Properties of SkillMatcher.match                                         *)

\* the best match of a candidate for a query: by an exact trigger, by a
\* trigger within the query or by the words of a trigger, by keywords of the
\* description, or none
KindOf(query, name) ==
    IF query = ExactTrigger /\ name = "exact" THEN "exact"
    ELSE IF /\ query \in {ExactTrigger, AroundTrigger, TriggerWords}
            /\ name \in {"exact", "within", "reordered"}
    THEN "partial"
    ELSE IF /\ query \in {ExactTrigger, AroundTrigger, TriggerWords}
            /\ name = "described"
    THEN "description"
    ELSE IF query # ByName /\ name = "listed" THEN "description"
    ELSE "none"

RankOf(kind) ==
    IF kind = "exact" THEN 3 ELSE IF kind = "partial" THEN 2
    ELSE IF kind = "description" THEN 1 ELSE 0

\* the score of the best match, in thousandths
BestScore(query, name) ==
    IF KindOf(query, name) = "exact" THEN 1000
    ELSE IF KindOf(query, name) = "partial"
    THEN IF name = "within" \/ (name = "exact" /\ query = AroundTrigger)
         THEN 800 ELSE 720
    ELSE IF KindOf(query, name) = "description"
    THEN IF name = "described" THEN 375
         ELSE IF query = TwoSkills THEN 333 ELSE 291
    ELSE 0

PositionIn(seq, x) ==
    IF x \in Range(seq) THEN CHOOSE i \in DOMAIN seq : seq[i] = x ELSE 0

\* C25: for one query, a candidate matched by an exact trigger scores higher
\* and is placed before one whose best match is a trigger within the query or
\* the words of a trigger, which scores higher and is placed before one whose
\* best match is by description keywords; match returns candidates of a score
\* of at least min_score only, the highest score first, and the first limit
\* of them.
C25_ExactOverPartialOverDescription ==
    ranking.op = "match" =>
        LET q == ranking.query
            res == ranking.results
            names == {ranking.metadata_list[i].name :
                          i \in DOMAIN ranking.metadata_list}
            eligible == {n \in names : /\ BestScore(q, n) > 0
                                       /\ BestScore(q, n) >= matcher_min_score}
        IN
        /\ Range(res) \subseteq eligible
        /\ Len(res) = IF Cardinality(eligible) < ranking.limit
                      THEN Cardinality(eligible) ELSE ranking.limit
        /\ \A i, j \in DOMAIN res :
               i < j => /\ res[i] # res[j]
                        /\ BestScore(q, res[i]) >= BestScore(q, res[j])
        /\ \A n \in eligible \ Range(res), m \in Range(res) :
               BestScore(q, m) >= BestScore(q, n)
        /\ \A n, m \in names :
               (RankOf(KindOf(q, n)) > RankOf(KindOf(q, m)) /\ KindOf(q, m) # "none")
                   => /\ BestScore(q, n) > BestScore(q, m)
                      /\ m \in Range(res)
                             => /\ n \in Range(res)
                                /\ PositionIn(res, n) < PositionIn(res, m)

\* a list that holds the candidates in ascending order of their match was
\* returned with the exact trigger match first, and cut at the limit
C25_Witness ==
    /\ ranking.op = "match"
    /\ ranking.query = ExactTrigger
    /\ ranking.metadata_list[1].name = "listed"
    /\ ranking.limit = 3
    /\ matcher_min_score = 0
    /\ ranking.results = << "exact", "within", "reordered" >>

\* a candidate matched by description keywords under min_score was left out
C25_BelowMinScoreWitness ==
    /\ ranking.op = "match"
    /\ ranking.query = ExactTrigger
    /\ Len(ranking.metadata_list) = 2
    /\ matcher_min_score = 750
    /\ ranking.limit = 3
    /\ ranking.results = << >>

InstructionLoaded(skills, name) ==
    name \in DOMAIN skills /\ skills[name].instruction # "none"

ContentLoaded(skills, name, path) ==
    /\ name \in DOMAIN skills
    /\ path \in DOMAIN skills[name].content
    /\ skills[name].content[path] # "none"

\* after a discover that scanned, no registered skill has an instruction or
\* the content of a reference
C26_MetadataOnlyAfterDiscover ==
    (registry_call.op = "discover" /\ registry_call.scanned) =>
        \A name \in DOMAIN _skills :
            /\ _skills[name].instruction = "none"
            /\ \A path \in DOMAIN _skills[name].content :
                   _skills[name].content[path] = "none"

\* the reference file of a registered skill is not on disk
FileAbsent(name, path) ==
    \/ _skills[name].source_path # "a/SKILL.md"
    \/ path # "guide.md"
    \/ ~files["a/guide.md"].present

\* what a step may load, and what a call on a loaded item does
C26_LoadedOnDemand ==
    /\ \A name \in {"alpha", "beta", "gamma"} :
           (~InstructionLoaded(_skills, name) /\ InstructionLoaded(_skills', name))
               => /\ registry_call'.op = "load_instruction"
                  /\ registry_call'.skill_name = name
    /\ \A name \in {"alpha", "beta", "gamma"}, path \in {"guide.md"} :
           (~ContentLoaded(_skills, name, path) /\ ContentLoaded(_skills', name, path))
               => /\ registry_call'.op = "load_reference"
                  /\ registry_call'.skill_name = name
                  /\ registry_call'.ref_path = path
    /\ (/\ registry_call'.op = "load_instruction"
        /\ InstructionLoaded(_skills, registry_call'.skill_name))
           => /\ registry_call'.returned
                     = _skills[registry_call'.skill_name].instruction
              /\ registry_call'.raised = ""
              /\ registry_call'.reads = 0
              /\ _skills' = _skills
    /\ (/\ registry_call'.op = "load_reference"
        /\ ContentLoaded(_skills, registry_call'.skill_name,
                         registry_call'.ref_path))
           => /\ registry_call'.returned
                     = _skills[registry_call'.skill_name].content[
                           registry_call'.ref_path]
              /\ registry_call'.raised = ""
              /\ registry_call'.reads = 0
              /\ _skills' = _skills
    /\ (/\ registry_call'.op = "load_reference"
        /\ registry_call'.skill_name \in DOMAIN _skills
        /\ registry_call'.ref_path
               \in DOMAIN _skills[registry_call'.skill_name].content
        /\ ~ContentLoaded(_skills, registry_call'.skill_name,
                          registry_call'.ref_path)
        /\ FileAbsent(registry_call'.skill_name, registry_call'.ref_path))
           => /\ registry_call'.returned = "none"
              /\ registry_call'.raised = ""
              /\ _skills' = _skills

\* C26: after discover every registered skill has neither instruction nor
\* reference content; an instruction becomes loaded only by load_instruction
\* of that skill and a reference's content only by load_reference of that
\* path; either call on a loaded item returns what is loaded and reads no
\* file; load_reference of an absent file returns None and raises nothing.
C26_ProgressiveDisclosure ==
    []C26_MetadataOnlyAfterDiscover /\ [][C26_LoadedOnDemand]_vars

\* alpha's instruction was loaded, its document rewritten, and the next
\* load_instruction returned the loaded text and read nothing
C26_Witness ==
    /\ registry_call.op = "load_instruction"
    /\ registry_call.skill_name = "alpha"
    /\ registry_call.returned = "v1"
    /\ registry_call.reads = 0
    /\ files["a/SKILL.md"].body = "v2"
    /\ _skills["alpha"].source_path = "a/SKILL.md"

\* load_reference of a declared reference whose file is absent returned None
C26_AbsentWitness ==
    /\ registry_call.op = "load_reference"
    /\ registry_call.skill_name = "alpha"
    /\ registry_call.ref_path = "guide.md"
    /\ "alpha" \in DOMAIN _skills
    /\ "guide.md" \in DOMAIN _skills["alpha"].content
    /\ _skills["alpha"].source_path = "a/SKILL.md"
    /\ ~files["a/guide.md"].present
    /\ registry_call.returned = "none"
    /\ registry_call.raised = ""

-----------------------------------------------------------------------------
(* Properties of the SandboxManager shared by several tasks                 *)

Pool == <<cache, persistent_executor, installed_deps, executors>>

\* the callers inside `async with self._lock`
Holders == {t \in Callers : tasks[t].pc \in UnderLock}

\* at most one task is inside `async with self._lock`, and the lock is held
C27_MutualExclusion ==
    LET inside == Cardinality(Holders) + (IF closing = "cleaning" THEN 1 ELSE 0)
    IN inside <= 1 /\ (inside = 1 => _lock)

\* at every await the cache holds at most cache_size entries, all live, and
\* not the executor a task is tearing down
C27_CacheObservable ==
    /\ Len(cache) <= cache_size
    /\ \A e \in CacheExecutors(cache) : executors[e].live
    /\ persistent_executor # NoExecutor => executors[persistent_executor].live
    /\ \A t \in Callers :
           tasks[t].pc = "evicting" =>
               tasks[t].oldest_executor \notin CacheExecutors(cache)

\* two callers holding live executors got for one skill hold the same one
C27_OneLiveExecutorPerSkill ==
    \A p, q \in Callers :
        (/\ strategy # PER_EXECUTION
         /\ tasks[p].pc = "returned" /\ tasks[q].pc = "returned"
         /\ strategy = PER_SKILL => tasks[p].skill_name = tasks[q].skill_name
         /\ executors[tasks[p].value].live
         /\ executors[tasks[q].value].live)
            => tasks[p].value = tasks[q].value

\* caller t enters the body of get_executor in this step
Served(t) ==
    /\ tasks[t].pc \in {"idle", "waiting"}
    /\ tasks'[t].pc \in {"creating", "installing", "evicting", "returned"}

C27_Serialized ==
    \* the pool is changed only by the task inside the lock
    /\ \A t \in Callers :
           (tasks[t].pc \in UnderLock /\ Pool' # Pool) => tasks'[t] # tasks[t]
    /\ (closing = "cleaning" /\ Pool' # Pool) => closing' = "no"
    \* a caller looks the pool up only while no task is inside the lock
    /\ \A t \in Callers :
           Served(t) => (Holders = {} /\ closing # "cleaning" /\ ~_lock)
    \* a caller served while its skill is cached gets the cached executor, and
    \* none is created
    /\ \A t \in Callers :
           (/\ Served(t)
            /\ strategy = PER_SKILL
            /\ tasks'[t].skill_name \in CacheKeys(cache))
               => /\ tasks'[t].pc = "returned"
                  /\ tasks'[t].value = CacheGet(cache, tasks'[t].skill_name)
                  /\ executors[tasks'[t].value].live
                  /\ ~tasks'[t].created
                  /\ executors' = executors

C27_UncachedWitness ==
    /\ strategy = PER_SKILL
    /\ cache_size = 0
    /\ tasks[1].pc = "returned" /\ tasks[2].pc = "returned"
    /\ 1 \in tasks[2].overlaps
    /\ tasks[1].value # tasks[2].value

\* the callers that hold executor e, returned to them by get_executor
HoldersOf(e) ==
    {t \in Callers : tasks[t].pc = "returned" /\ tasks[t].value = e}

C28_Handed ==
    \* the executor a call returns is live when the call returns it
    /\ \A t \in Callers :
           (tasks[t].pc # "returned" /\ tasks'[t].pc = "returned")
               => executors'[tasks'[t].value].live
    \* an eviction tears no executor down that a caller holds
    /\ \A e \in DOMAIN executors :
           (/\ closing # "cleaning"
            /\ executors[e].live
            /\ ~executors'[e].live)
               => HoldersOf(e) = {}

\* C28: an executor returned by get_executor is live when it is returned, for
\* every cache_size, and while the scope is active the pool tears no executor
\* down that a caller still holds.
C28_HandedOutSafely == [][C28_Handed]_vars

\* cache_size 1, the scope active: caller 1 still holds the executor of alpha,
\* which the eviction made by caller 2's call for beta has torn down
C28_Witness ==
    /\ strategy = PER_SKILL
    /\ cache_size = 1
    /\ active
    /\ closing = "no"
    /\ tasks[1].pc = "returned" /\ tasks[1].skill_name = "alpha"
    /\ tasks[2].pc = "returned" /\ tasks[2].skill_name = "beta"
    /\ tasks[1].value = 1 /\ tasks[2].value = 2
    /\ ~executors[1].live
    /\ executors[2].live
    /\ cache = <<[name |-> "beta", executor |-> 2]>>

\* cache_size 0: the executor get_executor has just returned is torn down
C28_ReturnedDeadWitness ==
    /\ strategy = PER_SKILL
    /\ cache_size = 0
    /\ active
    /\ closing = "no"
    /\ Len(executors) = 1
    /\ tasks[1].pc = "returned"
    /\ tasks[1].created
    /\ tasks[1].value = 1
    /\ ~executors[1].live
    /\ tasks[2].pc = "idle"

-----------------------------------------------------------------------------
(* Properties of the file transfers                                         *)

\* the files below a sandbox path: the listings that reach each and the local
\* path it is written to
Reached(file, needs, local) == [file |-> file, needs |-> needs, local |-> local]

FilesBelow(sandbox_path) ==
    IF sandbox_path = <<"out">>
    THEN {Reached(<<"out", "a.txt">>, {<<"out">>}, <<"output", "a.txt">>),
          Reached(<<"out", "b.txt">>, {<<"out">>}, <<"output", "b.txt">>),
          Reached(<<"out", "sub", "c.txt">>, {<<"out">>, <<"out", "sub">>},
                  <<"output", "sub", "c.txt">>)}
    ELSE IF sandbox_path = <<"out", "sub">>
    THEN {Reached(<<"out", "sub", "c.txt">>, {<<"out", "sub">>},
                  <<"output", "c.txt">>)}
    ELSE IF sandbox_path = <<"logs">>
    THEN {Reached(<<"logs", "l.txt">>, {<<"logs">>}, <<"output", "l.txt">>)}
    ELSE {}

\* the files below a path that can be listed, downloaded and written
WrittenBelow(sandbox_path, env) ==
    {r \in FilesBelow(sandbox_path) :
        /\ r.needs \cap env.failing = {}
        /\ r.file \notin env.failing
        /\ r.local \notin env.unwritable}

RECURSIVE WrittenCount(_, _, _)
WrittenCount(sandbox_paths, i, env) ==
    IF i > Len(sandbox_paths) THEN 0
    ELSE Cardinality(WrittenBelow(sandbox_paths[i], env))
             + WrittenCount(sandbox_paths, i + 1, env)

\* the call met no failure but of listings, downloads and writes of files
OnlyFileFailures(t) ==
    t.op = "download" /\ t.env.client /\ t.env.no_dirs = {}

\* C29: when listings or downloads of an output sync fail, the call raises
\* nothing, every requested path is listed, every file below a path that could
\* be listed is attempted, each file that could be downloaded and written is
\* written, and the returned count is the number of files written.
C29_FailuresSkipped ==
    OnlyFileFailures(transfer) =>
        /\ transfer.raised = ""
        /\ \A i \in DOMAIN transfer.sandbox_paths :
               /\ transfer.sandbox_paths[i] \in Range(transfer.attempted)
               /\ \A r \in FilesBelow(transfer.sandbox_paths[i]) :
                      /\ r.needs \cap transfer.env.failing = {}
                             => r.file \in Range(transfer.attempted)
                      /\ r.local \in Range(transfer.written)
                             <=> r \in WrittenBelow(transfer.sandbox_paths[i],
                                                    transfer.env)
        /\ transfer.returned = Len(transfer.written)
        /\ transfer.returned = WrittenCount(transfer.sandbox_paths, 1, transfer.env)

\* the first file of /out failed to download and the listing of /logs failed;
\* the files after them were written and counted
C29_Witness ==
    /\ transfer.op = "download"
    /\ transfer.sandbox_paths = <<<<"logs">>, <<"out">>>>
    /\ transfer.env.failing = {<<"logs">>, <<"out", "a.txt">>}
    /\ transfer.env.unwritable = {}
    /\ transfer.raised = ""
    /\ transfer.returned = 2
    /\ transfer.written = <<<<"output", "sub", "c.txt">>, <<"output", "b.txt">>>>

\* a file downloaded before a later failure stays written
C29_KeptWitness ==
    /\ transfer.op = "download"
    /\ transfer.sandbox_paths = <<<<"out">>>>
    /\ transfer.env.failing = {<<"out", "sub">>, <<"out", "b.txt">>}
    /\ transfer.written = <<<<"output", "a.txt">>>>
    /\ transfer.returned = 1

\* a JSON value with every string that is an existing local file, at any depth,
\* replaced by the sandbox path of that file
RECURSIVE Rewritten(_)
Rewritten(value) ==
    IF value.type = "str"
    THEN IF value.s = "/data/in.csv" THEN Str("/home/gem/uploads/in.csv")
         ELSE IF value.s = "/data/b.bin" THEN Str("/home/gem/uploads/b.bin")
         ELSE value
    ELSE IF value.type = "dict"
    THEN Dict([k \in DOMAIN value.items |->
                   Member(value.items[k].key, Rewritten(value.items[k].value))])
    ELSE IF value.type = "list"
    THEN List([k \in DOMAIN value.items |-> Rewritten(value.items[k])])
    ELSE value

\* the existing local files a JSON value names, at any depth
RECURSIVE FilesIn(_)
FilesIn(value) ==
    IF value.type = "str" THEN {value.s} \cap {"/data/in.csv", "/data/b.bin"}
    ELSE IF value.type = "dict"
    THEN UNION {FilesIn(value.items[k].value) : k \in DOMAIN value.items}
    ELSE IF value.type = "list"
    THEN UNION {FilesIn(value.items[k]) : k \in DOMAIN value.items}
    ELSE {}

\* an upload call on a JSON object that raised nothing
UploadedObject(t) ==
    /\ t.op = "upload"
    /\ t.input_data.kind = "json"
    /\ t.input_data.data.type = "dict"
    /\ t.raised = ""

\* C30: in a payload that is a JSON object, every value that is an existing
\* local file, at any depth, inside objects and lists, is uploaded and replaced
\* by its sandbox path, and every other value is unchanged.
C30_EveryLocalFileUploaded ==
    UploadedObject(transfer) =>
        /\ transfer.returned.kind = "json"
        /\ transfer.returned.data = Rewritten(transfer.input_data.data)
        /\ Range(transfer.uploaded) = FilesIn(transfer.input_data.data)

\* the file named by an object inside a list was neither uploaded nor replaced
C30_Witness ==
    /\ UploadedObject(transfer)
    /\ transfer.input_data.data =
           Dict(<<Member("input",
                         List(<<Dict(<<Member("path", Str("/data/in.csv"))>>)>>))>>)
    /\ transfer.returned.data = transfer.input_data.data
    /\ transfer.uploaded = << >>

\* the files named by members, by nested objects and by elements of a list
\* were uploaded and replaced
C30_NestedWitness ==
    /\ UploadedObject(transfer)
    /\ transfer.input_data.data =
           Dict(<<Member("input",
                         Dict(<<Member("a", Dict(<<Member("mode", Str("fast")),
                                                   Member("b", Str("/data/in.csv"))>>))>>)),
                  Member("other", Str("/data/b.bin"))>>)
    /\ transfer.returned.data = Rewritten(transfer.input_data.data)
    /\ transfer.uploaded = <<"/data/in.csv", "/data/b.bin">>

\* outside of lists nested in lists and objects nested in lists, every local
\* file of the payload is uploaded and replaced
C30_OutsideLists ==
    (/\ UploadedObject(transfer)
     /\ \A place \in {"dict in list", "list in list"}, value \in LeafValues :
            transfer.input_data.data.items[1].value # Placed(place, value))
        => /\ transfer.returned.data = Rewritten(transfer.input_data.data)
           /\ Range(transfer.uploaded) = FilesIn(transfer.input_data.data)

-----------------------------------------------------------------------------
(* Properties of the conversation memory                                    *)

\* the skill that declares a reference path
OwnerOf(path) ==
    IF path \in {"alpha/spec.md", "alpha/budget.md"} THEN "alpha" ELSE "beta"

\* the paths an answer of the recall call resolves to: its numbers read as
\* 1-based positions in the summaries
Resolved(recall, summaries) ==
    IF recall.status # "answered" \/ recall.text = "none" THEN {}
    ELSE {summaries[n].path : n \in Range(recall.numbers) \cap DOMAIN summaries}

\* C31: in a chat turn the recall answer is read as 1-based positions in the
\* summaries in insertion order; a number outside 1..Len(summaries) is ignored and
\* the none sentinel recalls nothing; every resolved reference of the active
\* skill is reloaded and its content is in that turn's prompt; and a reference
\* recalled in one turn is not in full in the prompt of the next turn unless that
\* turn recalls it again.
C31_RecallByIndexThisTurnOnly ==
    [][turn'.op = "chat" =>
          /\ Range(turn'.recalled) \subseteq Resolved(turn'.recall, reference_summaries)
          /\ turn'.prompt.recalled = turn'.recalled
          /\ \A path \in Resolved(turn'.recall, reference_summaries) :
                 OwnerOf(path) = active_skill' => path \in Range(turn'.recalled)
          /\ turn.op = "chat" =>
                 \A path \in Range(turn.recalled) \ Range(turn'.recalled) :
                     /\ path \notin Range(turn'.prompt.recalled)
                     /\ path \notin Range(turn'.prompt.references)]_vars

\* the index part of C31 on its own: what is recalled is what the numbers
\* resolve to among the references of the active skill
RecallByIndex ==
    [][turn'.op = "chat" =>
          /\ turn'.prompt.recalled = turn'.recalled
          /\ Range(turn'.recalled) =
                 {path \in Resolved(turn'.recall, reference_summaries) :
                      OwnerOf(path) = active_skill'}]_vars

\* a turn recalled the second summary: its path is in the prompt's recalled
\* section, and in the section of the active skill too, where it stays
C31_Witness ==
    /\ IsChat /\ turn.returned
    /\ turn.recall.numbers = <<2>>
    /\ Len(reference_summaries) = 2
    /\ turn.recalled = <<reference_summaries[2].path>>
    /\ turn.recalled[1] \in Range(turn.prompt.references)

\* a number past the last summary was answered and nothing was recalled
C31_IgnoredWitness ==
    /\ IsChat /\ turn.returned
    /\ turn.recall.numbers = <<2>>
    /\ Len(reference_summaries) = 1
    /\ turn.recalled = << >>

\* C32: the summaries section of a turn's prompt holds the summaries of exactly
\* the references summarized before the turn that are not recalled in it; a
\* reference recalled in the turn is in the prompt in full and without its summary.
C32_SummariesOfTheUnrecalled ==
    [][turn'.op = "chat" =>
          /\ Range(turn'.prompt.summaries) = SummarizedPaths \ Range(turn'.recalled)
          /\ Range(turn'.recalled) \subseteq Range(turn'.prompt.recalled)]_vars

\* a turn recalled a reference: the prompt has its full content and its summary
C32_Witness ==
    /\ IsChat /\ turn.returned
    /\ turn.recalled # << >>
    /\ \A path \in Range(turn.recalled) :
           /\ path \in Range(turn.prompt.recalled)
           /\ path \in Range(turn.prompt.summaries)

\* a turn that recalled nothing left out the summary of a reference of the
\* active skill loaded in an earlier turn
C32_DroppedWitness ==
    /\ IsChat /\ turn.returned
    /\ turn.recalled = << >>
    /\ turn.references_loaded = << >>
    /\ SummarizedPaths # {}
    /\ turn.prompt.summaries = << >>

\* the references declared EXPLICIT or IMPLICIT
GradedPaths == {"alpha/budget.md", "beta/guide.md"}

\* C33: the full content of an EXPLICIT or IMPLICIT reference is in the prompt of
\* a chat turn only if the reference is in loaded_references of the current
\* active-skill span or was recalled in the turn; content loaded before a
\* deselect_skill or reset is not in a later prompt.
C33_GradedContentOnlyWhenLoaded ==
    IsChat =>
        \A path \in GradedPaths \cap Range(turn.prompt.references) :
            \/ path \in Range(loaded_references)
            \/ path \in Range(turn.recalled)

\* a reference graded YES in an earlier span is in the prompt in full in a turn
\* of a later span that neither loaded nor recalled it
C33_Witness ==
    /\ IsChat /\ turn.returned
    /\ turn.grading.status = "answered"
    /\ \E path \in GradedPaths :
           /\ path \in Range(turn.graded)
           /\ path \in Range(turn.prompt.references)
           /\ path \notin Range(loaded_references)
           /\ path \notin Range(turn.recalled)

\* user, assistant, user, ... from the first message on
Alternating(history) ==
    \A i \in DOMAIN history :
        history[i] = IF i % 2 = 1 THEN "user" ELSE "assistant"

\* C36: the message history always alternates user, assistant, starting with a
\* user message; a chat that completes appends one user message and then one
\* assistant message, and a chat whose main LLM call raises leaves the history as
\* it was.
C36_HistoryAlternates ==
    /\ []Alternating(messages)
    /\ [][turn'.op = "chat" =>
              IF turn'.returned
              THEN messages' = messages \o <<"user", "assistant">>
              ELSE messages' = messages]_vars

\* a turn completed after a turn whose main call raised: two user messages in a row
C36_Witness ==
    /\ IsChat /\ turn.returned
    /\ messages = <<"user", "user", "assistant">>

\* the main call of the first turn raised and its user message is in the history
C36_RaisedWitness ==
    /\ IsChat /\ ~turn.returned
    /\ turn.raised = "LLMError"
    /\ messages = <<"user">>

\* C37: every path in loaded_references is the path of a reference of the active
\* skill (so the list is empty while no skill is active), also after a
\* select_skill of another skill while one is active, and no path is in the list
\* twice.
C37_LoadedBelongToActiveSkill ==
    /\ \A i \in DOMAIN loaded_references :
           /\ active_skill # NoSkill
           /\ OwnerOf(loaded_references[i]) = active_skill
    /\ \A i, j \in DOMAIN loaded_references :
           loaded_references[i] = loaded_references[j] => i = j

\* the no-duplicates part of C37 on its own
NoPathTwice ==
    \A i, j \in DOMAIN loaded_references :
        loaded_references[i] = loaded_references[j] => i = j

\* alpha was selected while beta was active: the reference loaded for beta is
\* still in loaded_references
C37_Witness ==
    /\ turn.op = "select_skill" /\ turn.returned
    /\ active_skill = "alpha"
    /\ loaded_references = <<"beta/guide.md">>

\* a turn of the newly selected skill added its references behind the other's
C37_MixedWitness ==
    /\ IsChat /\ turn.returned
    /\ active_skill = "alpha"
    /\ loaded_references = <<"beta/guide.md", "alpha/spec.md">>

-----------------------------------------------------------------------------
(* Properties of the streamed turn                                          *)

\* the step put an assistant message at the end of the history
AssistantAppended ==
    /\ Len(messages') > Len(messages)
    /\ messages'[Len(messages')] = "assistant"

\* C34: in chat_stream the assistant message is appended and the summaries are
\* generated only by the step in which the LLM stream ends, after every chunk of
\* the response was yielded; that step does append the message; and when the
\* consumer stops earlier neither is done.
C34_PostOnlyAfterStreamEnd ==
    [][/\ (AssistantAppended \/ reference_summaries' # reference_summaries)
              => /\ stream'.pc = "finished"
                 /\ stream'.pending = << >>
                 /\ stream'.yielded = stream'.response
       /\ (stream'.pc = "finished" /\ stream.pc # "finished") => AssistantAppended
       /\ turn'.op = "aclose"
              => /\ messages' = messages
                 /\ reference_summaries' = reference_summaries]_vars

\* a stream of several chunks was consumed to its end: the history has the
\* assistant message and the loaded reference has a summary
C34_Witness ==
    /\ stream.pc = "finished"
    /\ Len(stream.yielded) >= 2
    /\ messages = <<"user", "assistant">>
    /\ stream.references_loaded # << >>
    /\ Range(stream.references_loaded) \subseteq SummarizedPaths

\* the consumer stopped after the first chunk of several: the history ends with
\* the user message and the loaded reference has no summary
C34_StoppedWitness ==
    /\ stream.pc = "closed"
    /\ Len(stream.yielded) = 1
    /\ stream.pending # << >>
    /\ messages = <<"user">>
    /\ stream.references_loaded # << >>
    /\ reference_summaries = << >>

\* C35: no step of chat_stream hands a script to an executor, whatever
\* auto_execute_scripts is and whatever markers the streamed response holds: the
\* step dispatches nothing, reports no script as executed and leaves the
\* executor pool as it was.
C35_StreamDispatchesNothing ==
    [][turn'.op = "chat_stream" =>
          /\ dispatched' = << >>
          /\ turn'.scripts_executed = << >>
          /\ executors' = executors
          /\ cache' = cache
          /\ persistent_executor' = persistent_executor]_vars

\* with auto-execution on and a skill active, a response that invokes the
\* skill's script was streamed to its end and nothing was dispatched
C35_Witness ==
    /\ stream.pc = "finished"
    /\ auto_execute_scripts
    /\ active_skill = "alpha"
    /\ turn.op = "chat_stream"
    /\ turn.response = WithoutArgs
    /\ dispatched = << >>

-----------------------------------------------------------------------------
(* Properties of the LLM client's request routine                           *)

\* the answers after which the routine may try again: a 5xx or 429 status, or
\* no response at all
Retryable(answer) ==
    answer \in {StatusAnswer(429), StatusAnswer(500), StatusAnswer(503),
                RequestError}

\* the seconds slept before the first, second, ... retry
Backoffs == <<1, 2, 4, 8>>

\* C39: _make_request sends at most max_retries + 1 POSTs; every POST but the
\* first follows an answer with a 5xx or 429 status or a request error and a sleep
\* of 2^k seconds before retry k + 1; a 2xx answer is returned; any other 4xx
\* answer is raised at once; the last error is raised when the retries are used
\* up; and a call that was made always returns or raises.
C39_BoundedRetries ==
    /\ [](/\ request.attempts <= request.max_retries + 1
          /\ Len(request.slept) =
                 IF request.pc = "posting" THEN request.attempts - 1
                 ELSE IF request.pc = "sleeping" THEN request.attempts
                 ELSE Len(request.slept)
          /\ \A k \in DOMAIN request.slept :
                 /\ request.slept[k] = Backoffs[k]
                 /\ Retryable(request.answers[k])
          /\ \A i \in DOMAIN request.answers :
                 request.answers[i] \in {StatusAnswer(400), StatusAnswer(404)}
                     => /\ i = Len(request.answers)
                        /\ request.pc = "raised"
                        /\ request.raised = request.answers[i]
          /\ request.pc = "returned"
                 => /\ request.returned = StatusAnswer(200)
                    /\ request.answers[request.attempts] = StatusAnswer(200)
          /\ request.pc = "raised"
                 => /\ request.raised = request.answers[request.attempts]
                    /\ \/ ~Retryable(request.raised)
                       \/ request.attempts = request.max_retries + 1
          /\ (/\ request.attempts = request.max_retries + 1
              /\ Len(request.answers) = request.attempts
              /\ Retryable(request.answers[request.attempts]))
                 => /\ request.pc = "raised"
                    /\ request.raised = request.answers[request.attempts])
    /\ InProgress ~> ~InProgress

\* two retries were used up: three POSTs, sleeps of 1 and 2 seconds, and the
\* third error raised
C39_Witness ==
    /\ request.pc = "raised"
    /\ request.max_retries = 2
    /\ request.attempts = 3
    /\ request.slept = <<1, 2>>
    /\ request.answers = <<StatusAnswer(503), RequestError, StatusAnswer(429)>>
    /\ request.raised = StatusAnswer(429)

\* a 404 on the first POST was raised at once, with retries left
C39_ImmediateWitness ==
    /\ request.pc = "raised"
    /\ request.max_retries = 2
    /\ request.attempts = 1
    /\ request.slept = << >>
    /\ request.raised = StatusAnswer(404)

-----------------------------------------------------------------------------
(* Properties of the registry and its metadata index                        *)

\* the positions of the metadata index that carry a name
EntriesOf(name) == {i \in DOMAIN _metadata_index : _metadata_index[i].name = name}

\* C38: once discover has run, the metadata index has exactly one entry for every
\* registered name and none for any other name, and the entry is the metadata of
\* the skill registered under the name, also when two documents declare one name.
C38_IndexMatchesRegistry ==
    discovered =>
        /\ \A name \in DOMAIN _skills :
               /\ Cardinality(EntriesOf(name)) = 1
               /\ \A i \in EntriesOf(name) :
                      _metadata_index[i].source_path = _skills[name].source_path
        /\ \A i \in DOMAIN _metadata_index :
               _metadata_index[i].name \in DOMAIN _skills

\* two documents named alpha were discovered: one skill is registered and the
\* index has two entries of that name, one of them of the document that lost
C38_Witness ==
    /\ discovered
    /\ registry_call.op = "discover"
    /\ Cardinality(EntriesOf("alpha")) = 2
    /\ \E i \in EntriesOf("alpha") :
           _metadata_index[i].source_path # _skills["alpha"].source_path

\* the index and the registry agree on the names, whatever was discovered
SameNames ==
    discovered =>
        {_metadata_index[i].name : i \in DOMAIN _metadata_index} = DOMAIN _skills

====
